---------------------------- MODULE Spec2Model ----------------------------
(***************************************************************************)
(* Persistent red-black tree (rbtree over rbnode) of                       *)
(* src/src/boot/init/data/rbtree/basic.cpp.                                *)
(*                                                                         *)
(* An rbnode object is modelled as a tuple:                                *)
(*   leaf        <<>>                      (lean::box(0), obj_tag 0)       *)
(*   red_node    <<1, lchild, key, val, rchild>>       (obj_tag 1)         *)
(*   black_node  <<2, lchild, key, val, rchild>>       (obj_tag 2)         *)
(* An option object is <<>> (none) or <<x>> (some x); a list object is a   *)
(* sequence.  A comparator closure x_0 is the set of the pairs <<a, b>> it *)
(* answers true for, and lean::apply_2(x_0, a, b) is its application.      *)
(***************************************************************************)
EXTENDS Integers, Sequences, FiniteSets, TLC

\* Keys are 1..MaxKey.
MaxKey == 4

Keys == 1..MaxKey

\* The two tree variables of the client program.
Handles == {"a", "b"}

VARIABLES
    lt,        \* the comparator closure all operations are called with
    tree,      \* tree[h]: the rbtree held by handle h
    inserted,  \* inserted[h]: the keys inserted into tree[h] so far
    insh,      \* the handle of the last insert
    inskey,    \* the key of the last insert (0 before the first)
    pre,       \* the tree the last insert was applied to
    bal,       \* balance1_node/balance2_node calls made by the last insert
    opname,    \* the last operation performed
    oph,       \* the handle it was applied to
    opkey,     \* its key argument (0 when it has none)
    res,       \* the value the last query returned
    heap,      \* the cells of the reference-counted heap
    roots,     \* roots[h]: the reference handle h holds into the heap
    snap,      \* snap[h]: the tree handle h held before the last heap insert
    reused,    \* the number of cells the last heap insert overwrote in place
    reused_rc, \* the reference counts those cells had when insert was called
    copied,    \* the number of shared cells the last heap insert gave up a
               \* reference to
    index_state, \* "Uninitialized" until the backward lemma index is built
    env,       \* env[c]: the [intro] declaration c of the environment the
               \* index was built from (its conclusion's head, its priority)
    m_index,   \* backward_lemma_index::m_index, the map of the head_map_prio
    added,     \* the <<head, lemma>> pairs m_index holds, in the order of the
               \* m_index.insert calls that put them there
    traced,    \* the declarations build emitted a "discarding" trace for
    vm_objs,   \* vm_objs[o]: the m_index of the backward_lemma_index the
               \* vm_backward_lemmas object o holds as its m_val
    procs,     \* the two threads that insert into one shared tree: the
               \* phase, the tree shared, a reader's reference to it, and of
               \* each thread the position in ins and its local variables
    fx         \* the run of bfix: the base and step closures, fuel and
               \* argument it was called with, the stack of activations,
               \* the value being returned and the calls made so far

hvars == <<heap, roots, snap, reused, reused_rc, copied>>

ivars == <<index_state, env, m_index, added, traced, vm_objs>>

vars == <<lt, tree, inserted, insh, inskey, pre, bal, opname, oph, opkey, res,
          heap, roots, snap, reused, reused_rc, copied,
          index_state, env, m_index, added, traced, vm_objs, procs, fx>>

-----------------------------------------------------------------------------
(* Objects *)

leaf == <<>>

red_tag == 1

black_tag == 2

obj_tag(x) == IF x = <<>> THEN 0 ELSE x[1]

alloc_cnstr(tag, l, k, v, r) == <<tag, l, k, v, r>>

lchild(x) == x[2]

key_of(x) == x[3]

val_of(x) == x[4]

rchild(x) == x[5]

none == <<>>

some(x) == <<x>>

unit == 0

apply_2(f, a, b) == <<a, b>> \in f

\* The colour of a node as a uint8: 0 (red) for a red node, 1 (black) for a
\* black node and for the leaf; ins tests the result against 0.
l_rbnode_get__color(x) == IF obj_tag(x) = red_tag THEN 0 ELSE 1

l_option_is__some(o) == o # none

l_option_to__bool(o) == o # none

-----------------------------------------------------------------------------
(* Rebalancing: balance1_node, balance2_node, mk_insert_result *)

balance1(l, y, yv, r, v, vv, t) ==
    IF obj_tag(l) = red_tag
    THEN alloc_cnstr(red_tag,
                     alloc_cnstr(black_tag, lchild(l), key_of(l), val_of(l), rchild(l)),
                     y, yv,
                     alloc_cnstr(black_tag, r, v, vv, t))
    ELSE IF obj_tag(r) = red_tag
    THEN alloc_cnstr(red_tag,
                     alloc_cnstr(black_tag, l, y, yv, lchild(r)),
                     key_of(r), val_of(r),
                     alloc_cnstr(black_tag, rchild(r), v, vv, t))
    ELSE alloc_cnstr(black_tag, alloc_cnstr(red_tag, l, y, yv, r), v, vv, t)

\* balance1_node(n, v, vv, t): n is the freshly inserted-into left subtree,
\* (v, vv) the parent's entry, t the parent's right subtree.
l_rbnode_balance1__node(n, v, vv, t) ==
    IF obj_tag(n) = 0 THEN t
    ELSE balance1(lchild(n), key_of(n), val_of(n), rchild(n), v, vv, t)

balance2(l, y, yv, r, v, vv, t) ==
    IF obj_tag(l) = red_tag
    THEN alloc_cnstr(red_tag,
                     alloc_cnstr(black_tag, t, v, vv, lchild(l)),
                     key_of(l), val_of(l),
                     alloc_cnstr(black_tag, rchild(l), y, yv, r))
    ELSE IF obj_tag(r) = red_tag
    THEN alloc_cnstr(red_tag,
                     alloc_cnstr(black_tag, t, v, vv, l),
                     y, yv,
                     alloc_cnstr(black_tag, lchild(r), key_of(r), val_of(r), rchild(r)))
    ELSE alloc_cnstr(black_tag, t, v, vv, alloc_cnstr(red_tag, l, y, yv, r))

\* balance2_node(n, v, vv, t): n is the freshly inserted-into right subtree,
\* (v, vv) the parent's entry, t the parent's left subtree.
l_rbnode_balance2__node(n, v, vv, t) ==
    IF obj_tag(n) = 0 THEN t
    ELSE balance2(lchild(n), key_of(n), val_of(n), rchild(n), v, vv, t)

\* The root is forced black once the insertion is complete.
l_rbnode_mk__insert__result(c, n) ==
    IF obj_tag(n) = red_tag
    THEN alloc_cnstr(black_tag, lchild(n), key_of(n), val_of(n), rchild(n))
    ELSE n

-----------------------------------------------------------------------------
(* Insertion *)

\* ins returns [n |-> the new subtree, calls |-> the number of
\* balance1_node/balance2_node calls executed].
RECURSIVE l_rbnode_ins(_, _, _, _)

\* Mutant of ins_leaf: the new node is allocated with the black tag.
ins_leaf_black(x_0, x_1, x_2, x_3) ==
    [n |-> alloc_cnstr(black_tag, x_1, x_2, x_3, x_1), calls |-> 0]

\* case 0: the leaf
ins_leaf(x_0, x_1, x_2, x_3) ==
    [n |-> alloc_cnstr(red_tag, x_1, x_2, x_3, x_1), calls |-> 0]

\* Mutant of ins_red: the two descents are exchanged.
ins_red_swapped(x_0, x_1, x_2, x_3) ==
    LET x_6 == lchild(x_1)
        x_8 == key_of(x_1)
        x_10 == val_of(x_1)
        x_12 == rchild(x_1)
    IN IF ~apply_2(x_0, x_2, x_8)
       THEN IF ~apply_2(x_0, x_8, x_2)
            THEN [n |-> alloc_cnstr(red_tag, x_6, x_2, x_3, x_12), calls |-> 0]
            ELSE LET x_31 == l_rbnode_ins(x_0, x_6, x_2, x_3)
                 IN [n |-> alloc_cnstr(red_tag, x_31.n, x_8, x_10, x_12),
                     calls |-> x_31.calls]
       ELSE LET x_29 == l_rbnode_ins(x_0, x_12, x_2, x_3)
            IN [n |-> alloc_cnstr(red_tag, x_6, x_8, x_10, x_29.n),
                calls |-> x_29.calls]

\* case 1: a red node
ins_red(x_0, x_1, x_2, x_3) ==
    LET x_6 == lchild(x_1)
        x_8 == key_of(x_1)
        x_10 == val_of(x_1)
        x_12 == rchild(x_1)
    IN IF ~apply_2(x_0, x_2, x_8)
       THEN IF ~apply_2(x_0, x_8, x_2)
            THEN [n |-> alloc_cnstr(red_tag, x_6, x_2, x_3, x_12), calls |-> 0]
            ELSE LET x_29 == l_rbnode_ins(x_0, x_12, x_2, x_3)
                 IN [n |-> alloc_cnstr(red_tag, x_6, x_8, x_10, x_29.n),
                     calls |-> x_29.calls]
       ELSE LET x_31 == l_rbnode_ins(x_0, x_6, x_2, x_3)
            IN [n |-> alloc_cnstr(red_tag, x_31.n, x_8, x_10, x_12),
                calls |-> x_31.calls]

\* Mutant of ins_black: the red child is never rebalanced.
ins_black_plain(x_0, x_1, x_2, x_3) ==
    LET x_33 == lchild(x_1)
        x_35 == key_of(x_1)
        x_37 == val_of(x_1)
        x_39 == rchild(x_1)
    IN IF ~apply_2(x_0, x_2, x_35)
       THEN IF ~apply_2(x_0, x_35, x_2)
            THEN [n |-> alloc_cnstr(black_tag, x_33, x_2, x_3, x_39), calls |-> 0]
            ELSE LET x_61 == l_rbnode_ins(x_0, x_39, x_2, x_3)
                      IN [n |-> alloc_cnstr(black_tag, x_33, x_35, x_37, x_61.n),
                          calls |-> x_61.calls]
       ELSE LET x_68 == l_rbnode_ins(x_0, x_33, x_2, x_3)
                 IN [n |-> alloc_cnstr(black_tag, x_68.n, x_35, x_37, x_39),
                     calls |-> x_68.calls]

\* Mutant of ins_black: the replaced node is allocated with the red tag.
ins_black_eq_red(x_0, x_1, x_2, x_3) ==
    LET x_33 == lchild(x_1)
        x_35 == key_of(x_1)
        x_37 == val_of(x_1)
        x_39 == rchild(x_1)
    IN IF ~apply_2(x_0, x_2, x_35)
       THEN IF ~apply_2(x_0, x_35, x_2)
            THEN [n |-> alloc_cnstr(red_tag, x_33, x_2, x_3, x_39), calls |-> 0]
            ELSE IF l_rbnode_get__color(x_39) = 0
                 THEN LET x_59 == l_rbnode_ins(x_0, x_39, x_2, x_3)
                      IN [n |-> l_rbnode_balance2__node(x_59.n, x_35, x_37, x_33),
                          calls |-> x_59.calls + 1]
                 ELSE LET x_61 == l_rbnode_ins(x_0, x_39, x_2, x_3)
                      IN [n |-> alloc_cnstr(black_tag, x_33, x_35, x_37, x_61.n),
                          calls |-> x_61.calls]
       ELSE IF l_rbnode_get__color(x_33) = 0
            THEN LET x_66 == l_rbnode_ins(x_0, x_33, x_2, x_3)
                 IN [n |-> l_rbnode_balance1__node(x_66.n, x_35, x_37, x_39),
                     calls |-> x_66.calls + 1]
            ELSE LET x_68 == l_rbnode_ins(x_0, x_33, x_2, x_3)
                 IN [n |-> alloc_cnstr(black_tag, x_68.n, x_35, x_37, x_39),
                     calls |-> x_68.calls]

\* Mutant of ins_black: the second comparison is left out, so that a key
\* that is not less than the node's key always goes to the right.
ins_black_dup(x_0, x_1, x_2, x_3) ==
    LET x_33 == lchild(x_1)
        x_35 == key_of(x_1)
        x_37 == val_of(x_1)
        x_39 == rchild(x_1)
    IN IF ~apply_2(x_0, x_2, x_35)
       THEN IF l_rbnode_get__color(x_39) = 0
            THEN LET x_59 == l_rbnode_ins(x_0, x_39, x_2, x_3)
                 IN [n |-> l_rbnode_balance2__node(x_59.n, x_35, x_37, x_33),
                     calls |-> x_59.calls + 1]
            ELSE LET x_61 == l_rbnode_ins(x_0, x_39, x_2, x_3)
                 IN [n |-> alloc_cnstr(black_tag, x_33, x_35, x_37, x_61.n),
                     calls |-> x_61.calls]
       ELSE IF l_rbnode_get__color(x_33) = 0
            THEN LET x_66 == l_rbnode_ins(x_0, x_33, x_2, x_3)
                 IN [n |-> l_rbnode_balance1__node(x_66.n, x_35, x_37, x_39),
                     calls |-> x_66.calls + 1]
            ELSE LET x_68 == l_rbnode_ins(x_0, x_33, x_2, x_3)
                 IN [n |-> alloc_cnstr(black_tag, x_68.n, x_35, x_37, x_39),
                     calls |-> x_68.calls]

\* Mutant of ins_black: when the comparator answers true both ways, the key
\* is inserted into both subtrees.
ins_black_both(x_0, x_1, x_2, x_3) ==
    LET x_33 == lchild(x_1)
        x_35 == key_of(x_1)
        x_37 == val_of(x_1)
        x_39 == rchild(x_1)
    IN IF ~apply_2(x_0, x_2, x_35)
       THEN IF ~apply_2(x_0, x_35, x_2)
            THEN [n |-> alloc_cnstr(black_tag, x_33, x_2, x_3, x_39), calls |-> 0]
            ELSE IF l_rbnode_get__color(x_39) = 0
                 THEN LET x_59 == l_rbnode_ins(x_0, x_39, x_2, x_3)
                      IN [n |-> l_rbnode_balance2__node(x_59.n, x_35, x_37, x_33),
                          calls |-> x_59.calls + 1]
                 ELSE LET x_61 == l_rbnode_ins(x_0, x_39, x_2, x_3)
                      IN [n |-> alloc_cnstr(black_tag, x_33, x_35, x_37, x_61.n),
                          calls |-> x_61.calls]
       ELSE IF apply_2(x_0, x_35, x_2)
            THEN LET x_66 == l_rbnode_ins(x_0, x_33, x_2, x_3)
                     x_61 == l_rbnode_ins(x_0, x_39, x_2, x_3)
                 IN [n |-> alloc_cnstr(black_tag, x_66.n, x_35, x_37, x_61.n),
                     calls |-> x_66.calls + x_61.calls]
            ELSE IF l_rbnode_get__color(x_33) = 0
            THEN LET x_66 == l_rbnode_ins(x_0, x_33, x_2, x_3)
                 IN [n |-> l_rbnode_balance1__node(x_66.n, x_35, x_37, x_39),
                     calls |-> x_66.calls + 1]
            ELSE LET x_68 == l_rbnode_ins(x_0, x_33, x_2, x_3)
                 IN [n |-> alloc_cnstr(black_tag, x_68.n, x_35, x_37, x_39),
                     calls |-> x_68.calls]

\* default: a black node
ins_black(x_0, x_1, x_2, x_3) ==
    LET x_33 == lchild(x_1)
        x_35 == key_of(x_1)
        x_37 == val_of(x_1)
        x_39 == rchild(x_1)
    IN IF ~apply_2(x_0, x_2, x_35)
       THEN IF ~apply_2(x_0, x_35, x_2)
            THEN [n |-> alloc_cnstr(black_tag, x_33, x_2, x_3, x_39), calls |-> 0]
            ELSE IF l_rbnode_get__color(x_39) = 0
                 THEN LET x_59 == l_rbnode_ins(x_0, x_39, x_2, x_3)
                      IN [n |-> l_rbnode_balance2__node(x_59.n, x_35, x_37, x_33),
                          calls |-> x_59.calls + 1]
                 ELSE LET x_61 == l_rbnode_ins(x_0, x_39, x_2, x_3)
                      IN [n |-> alloc_cnstr(black_tag, x_33, x_35, x_37, x_61.n),
                          calls |-> x_61.calls]
       ELSE IF l_rbnode_get__color(x_33) = 0
            THEN LET x_66 == l_rbnode_ins(x_0, x_33, x_2, x_3)
                 IN [n |-> l_rbnode_balance1__node(x_66.n, x_35, x_37, x_39),
                     calls |-> x_66.calls + 1]
            ELSE LET x_68 == l_rbnode_ins(x_0, x_33, x_2, x_3)
                 IN [n |-> alloc_cnstr(black_tag, x_68.n, x_35, x_37, x_39),
                     calls |-> x_68.calls]

l_rbnode_ins(x_0, x_1, x_2, x_3) ==
    IF obj_tag(x_1) = 0 THEN ins_leaf(x_0, x_1, x_2, x_3)
    ELSE IF obj_tag(x_1) = red_tag THEN ins_red(x_0, x_1, x_2, x_3)
    ELSE ins_black(x_0, x_1, x_2, x_3)

\* Mutant of l_rbnode_insert: the result of ins is returned as it is.
rbnode_insert_raw(x_0, x_1, x_2, x_3) == l_rbnode_ins(x_0, x_1, x_2, x_3)

l_rbnode_insert(x_0, x_1, x_2, x_3) ==
    LET x_5 == l_rbnode_get__color(x_1)
        x_6 == l_rbnode_ins(x_0, x_1, x_2, x_3)
    IN [n |-> l_rbnode_mk__insert__result(x_5, x_6.n), calls |-> x_6.calls]

l_rbtree_insert(x_0, x_1, x_2) == l_rbnode_insert(x_0, x_1, x_2, unit)

-----------------------------------------------------------------------------
(* Queries *)

\* Mutant of l_rbnode_find__core: the two descents are exchanged.
RECURSIVE find__core_swapped(_, _, _)
find__core_swapped(x_0, x_1, x_2) ==
    IF obj_tag(x_1) = 0
    THEN none
    ELSE IF ~apply_2(x_0, x_2, key_of(x_1))
         THEN IF ~apply_2(x_0, key_of(x_1), x_2)
              THEN some(<<key_of(x_1), val_of(x_1)>>)
              ELSE find__core_swapped(x_0, lchild(x_1), x_2)
         ELSE find__core_swapped(x_0, rchild(x_1), x_2)

RECURSIVE l_rbnode_find__core(_, _, _)
l_rbnode_find__core(x_0, x_1, x_2) ==
    IF obj_tag(x_1) = 0
    THEN none
    ELSE IF ~apply_2(x_0, x_2, key_of(x_1))
         THEN IF ~apply_2(x_0, key_of(x_1), x_2)
              THEN some(<<key_of(x_1), val_of(x_1)>>)
              ELSE l_rbnode_find__core(x_0, rchild(x_1), x_2)
         ELSE l_rbnode_find__core(x_0, lchild(x_1), x_2)

\* Mutant of l_rbtree_find: the value field of the entry is returned.
rbtree_find_val(x_0, x_1, x_2) ==
    LET x_3 == l_rbnode_find__core(x_0, x_1, x_2)
    IN IF x_3 = none THEN none ELSE some(x_3[1][2])

l_rbtree_find(x_0, x_1, x_2) ==
    LET x_3 == l_rbnode_find__core(x_0, x_1, x_2)
    IN IF x_3 = none THEN none ELSE some(x_3[1][1])

l_rbtree_contains(x_0, x_1, x_2) == l_option_is__some(l_rbtree_find(x_0, x_1, x_2))

\* rev_fold specialised to list cons: x_0 the tree, x_1 the list built so far.
RECURSIVE l_rbnode_rev__fold_to__list(_, _)
l_rbnode_rev__fold_to__list(x_0, x_1) ==
    IF obj_tag(x_0) = 0
    THEN x_1
    ELSE LET x_9 == l_rbnode_rev__fold_to__list(rchild(x_0), x_1)
             x_10 == <<key_of(x_0)>> \o x_9
         IN l_rbnode_rev__fold_to__list(lchild(x_0), x_10)

l_rbtree_to__list(x_0) == l_rbnode_rev__fold_to__list(x_0, <<>>)

\* Mutant of l_rbnode_all_subset: the right subtree is not traversed.
RECURSIVE all_subset_no_right(_, _, _)
all_subset_no_right(x_0, x_1, x_2) ==
    IF obj_tag(x_2) = 0
    THEN TRUE
    ELSE LET x_17 == l_option_to__bool(l_rbtree_find(x_0, x_1, key_of(x_2)))
         IN IF ~x_17
            THEN x_17
            ELSE all_subset_no_right(x_0, x_1, lchild(x_2))

\* all specialised to subset: x_1 the searched tree, x_2 the traversed tree.
RECURSIVE l_rbnode_all_subset(_, _, _)
l_rbnode_all_subset(x_0, x_1, x_2) ==
    IF obj_tag(x_2) = 0
    THEN TRUE
    ELSE LET x_17 == l_option_to__bool(l_rbtree_find(x_0, x_1, key_of(x_2)))
         IN IF ~x_17
            THEN x_17
            ELSE LET x_27 == l_rbnode_all_subset(x_0, x_1, lchild(x_2))
                 IN IF ~x_27
                    THEN x_27
                    ELSE l_rbnode_all_subset(x_0, x_1, rchild(x_2))

\* Mutant of l_rbtree_subset: the two trees are passed in the given order.
rbtree_subset_swapped(x_0, x_1, x_2) == l_rbnode_all_subset(x_0, x_1, x_2)

l_rbtree_subset(x_0, x_1, x_2) == l_rbnode_all_subset(x_0, x_2, x_1)

\* all specialised to seteq (the same code as for subset): x_1 the searched
\* tree, x_2 the traversed tree.  The result r comes with the keys of x_2
\* that were looked up in x_1, in the order of the lookups.
RECURSIVE l_rbnode_all_seteq(_, _, _)
l_rbnode_all_seteq(x_0, x_1, x_2) ==
    IF obj_tag(x_2) = 0
    THEN [r |-> TRUE, calls |-> <<>>]
    ELSE LET x_17 == l_option_to__bool(l_rbtree_find(x_0, x_1, key_of(x_2)))
             here == <<key_of(x_2)>>
         IN IF ~x_17
            THEN [r |-> x_17, calls |-> here]
            ELSE LET x_27 == l_rbnode_all_seteq(x_0, x_1, lchild(x_2))
                 IN IF ~x_27.r
                    THEN [r |-> x_27.r, calls |-> here \o x_27.calls]
                    ELSE LET x_28 == l_rbnode_all_seteq(x_0, x_1, rchild(x_2))
                         IN [r |-> x_28.r,
                             calls |-> here \o x_27.calls \o x_28.calls]

\* Mutant of l_rbtree_seteq: both passes are always made.
rbtree_seteq_eager(x_0, x_1, x_2) ==
    LET x_6 == l_rbnode_all_seteq(x_0, x_2, x_1)
        x_11 == l_rbnode_all_seteq(x_0, x_1, x_2)
    IN [r |-> x_6.r /\ x_11.r, in2 |-> x_6.calls, in1 |-> x_11.calls]

\* seteq(x_1, x_2): r is the result, in2 the keys of x_1 looked up in x_2
\* and in1 the keys of x_2 looked up in x_1.
l_rbtree_seteq(x_0, x_1, x_2) ==
    LET x_6 == l_rbnode_all_seteq(x_0, x_2, x_1)
    IN IF ~x_6.r
       THEN [r |-> x_6.r, in2 |-> x_6.calls, in1 |-> <<>>]
       ELSE LET x_11 == l_rbnode_all_seteq(x_0, x_1, x_2)
            IN [r |-> x_11.r, in2 |-> x_6.calls, in1 |-> x_11.calls]

-----------------------------------------------------------------------------
(* min and max.  l_rbnode_min and l_rbnode_max are only declared in the    *)
(* source; they return the entry of the leftmost and of the rightmost node.*)

RECURSIVE l_rbnode_min(_)
l_rbnode_min(x_0) ==
    IF obj_tag(x_0) = 0 THEN none
    ELSE IF obj_tag(lchild(x_0)) = 0 THEN some(<<key_of(x_0), val_of(x_0)>>)
    ELSE l_rbnode_min(lchild(x_0))

RECURSIVE l_rbnode_max(_)
l_rbnode_max(x_0) ==
    IF obj_tag(x_0) = 0 THEN none
    ELSE IF obj_tag(rchild(x_0)) = 0 THEN some(<<key_of(x_0), val_of(x_0)>>)
    ELSE l_rbnode_max(rchild(x_0))

\* Mutant of l_rbtree_min: the entry is taken from l_rbnode_max.
rbtree_min_of_max(x_0) ==
    LET x_1 == l_rbnode_max(x_0)
    IN IF x_1 = none THEN none ELSE some(x_1[1][1])

l_rbtree_min(x_0) ==
    LET x_1 == l_rbnode_min(x_0)
    IN IF x_1 = none THEN none ELSE some(x_1[1][1])

l_rbtree_max(x_0) ==
    LET x_1 == l_rbnode_max(x_0)
    IN IF x_1 = none THEN none ELSE some(x_1[1][1])

-----------------------------------------------------------------------------
(* Folds.  The step closure x_0 is given by name; apply_step is            *)
(* lean::apply_2 on it.                                                    *)

\* "snoc" appends the key to the accumulator, "add" adds it.
Steps == {"snoc", "add"}

StepInits(f) == IF f = "snoc" THEN {<<>>, <<0>>} ELSE {0, 1}

apply_step(f, k, acc) == IF f = "snoc" THEN Append(acc, k) ELSE acc + k

\* Mutant of l_rbnode_fold: the step is applied to the node before its left
\* subtree is folded.
RECURSIVE fold_node_first(_, _, _)
fold_node_first(x_0, x_1, x_2) ==
    IF obj_tag(x_1) = 0
    THEN x_2
    ELSE LET x_14 == apply_step(x_0, key_of(x_1), x_2)
             x_12 == fold_node_first(x_0, lchild(x_1), x_14)
         IN fold_node_first(x_0, rchild(x_1), x_12)

RECURSIVE l_rbnode_fold(_, _, _)
l_rbnode_fold(x_0, x_1, x_2) ==
    IF obj_tag(x_1) = 0
    THEN x_2
    ELSE LET x_12 == l_rbnode_fold(x_0, lchild(x_1), x_2)
             x_14 == apply_step(x_0, key_of(x_1), x_12)
         IN l_rbnode_fold(x_0, rchild(x_1), x_14)

l_rbtree_fold(x_0, x_1, x_2) == l_rbnode_fold(x_0, x_1, x_2)

RECURSIVE l_rbnode_rev__fold(_, _, _)
l_rbnode_rev__fold(x_0, x_1, x_2) ==
    IF obj_tag(x_1) = 0
    THEN x_2
    ELSE LET x_12 == l_rbnode_rev__fold(x_0, rchild(x_1), x_2)
             x_14 == apply_step(x_0, key_of(x_1), x_12)
         IN l_rbnode_rev__fold(x_0, lchild(x_1), x_14)

l_rbtree_rev__fold(x_0, x_1, x_2) == l_rbnode_rev__fold(x_0, x_1, x_2)

-----------------------------------------------------------------------------
(* all and any.  The predicate closure is the set of the keys it holds of; *)
(* apply_1 is lean::apply_1 on it.  A result r comes with the keys the     *)
(* predicate was applied to, in the order of the applications.             *)

Preds == SUBSET Keys

apply_1(f, a) == a \in f

\* Mutant of l_rbnode_all: the subtrees are traversed whatever the predicate
\* returned for the node.
RECURSIVE all_no_cut(_, _)
all_no_cut(x_0, x_1) ==
    IF obj_tag(x_1) = 0
    THEN [r |-> TRUE, calls |-> <<>>]
    ELSE LET x_14 == apply_1(x_0, key_of(x_1))
             x_20 == all_no_cut(x_0, lchild(x_1))
             x_22 == all_no_cut(x_0, rchild(x_1))
         IN [r |-> x_14 /\ x_20.r /\ x_22.r,
             calls |-> <<key_of(x_1)>> \o x_20.calls \o x_22.calls]

RECURSIVE l_rbnode_all(_, _)
l_rbnode_all(x_0, x_1) ==
    IF obj_tag(x_1) = 0
    THEN [r |-> TRUE, calls |-> <<>>]
    ELSE LET x_14 == apply_1(x_0, key_of(x_1))
             here == <<key_of(x_1)>>
         IN IF ~x_14
            THEN [r |-> x_14, calls |-> here]
            ELSE LET x_20 == l_rbnode_all(x_0, lchild(x_1))
                 IN IF ~x_20.r
                    THEN [r |-> x_20.r, calls |-> here \o x_20.calls]
                    ELSE LET x_22 == l_rbnode_all(x_0, rchild(x_1))
                         IN [r |-> x_22.r,
                             calls |-> here \o x_20.calls \o x_22.calls]

l_rbtree_all(x_0, x_1) == l_rbnode_all(x_1, x_0)

\* Mutant of l_rbnode_any: the left subtree is searched before the predicate
\* is applied to the node.
RECURSIVE any_left_first(_, _)
any_left_first(x_0, x_1) ==
    IF obj_tag(x_1) = 0
    THEN [r |-> FALSE, calls |-> <<>>]
    ELSE LET x_16 == any_left_first(x_0, lchild(x_1))
             here == <<key_of(x_1)>>
         IN IF x_16.r
            THEN x_16
            ELSE IF apply_1(x_0, key_of(x_1))
                 THEN [r |-> TRUE, calls |-> x_16.calls \o here]
                 ELSE LET x_18 == any_left_first(x_0, rchild(x_1))
                      IN [r |-> x_18.r,
                          calls |-> x_16.calls \o here \o x_18.calls]

RECURSIVE l_rbnode_any(_, _)
l_rbnode_any(x_0, x_1) ==
    IF obj_tag(x_1) = 0
    THEN [r |-> FALSE, calls |-> <<>>]
    ELSE LET x_14 == apply_1(x_0, key_of(x_1))
             here == <<key_of(x_1)>>
         IN IF x_14
            THEN [r |-> x_14, calls |-> here]
            ELSE LET x_16 == l_rbnode_any(x_0, lchild(x_1))
                 IN IF x_16.r
                    THEN [r |-> x_16.r, calls |-> here \o x_16.calls]
                    ELSE LET x_18 == l_rbnode_any(x_0, rchild(x_1))
                         IN [r |-> x_18.r,
                             calls |-> here \o x_16.calls \o x_18.calls]

l_rbtree_any(x_0, x_1) == l_rbnode_any(x_1, x_0)

-----------------------------------------------------------------------------
(* Monadic folds.  The monad dictionary x_0 is a record [kind, seq]:       *)
(*   kind "id"  - a computation is its value, bind applies the             *)
(*                continuation to it;                                      *)
(*   kind "exc" - a computation is [ok, val, log]: whether it succeeded,   *)
(*                its value, and the keys whose actions took effect; bind  *)
(*                stops at a failure;                                      *)
(*   seq        - the dictionary's a *> b: "derived" is bind(a, _ -> b),   *)
(*                "second" is an instance that returns b alone.            *)
(* The action closure x_1 is a step of Steps under "id"; under "exc" it is *)
(* the set of the keys it fails on, and it adds the key to the accumulator.*)
(* A closure is the record of the function and the arguments it holds.     *)

Monads ==
    {[kind |-> "id", seq |-> "derived"],
     [kind |-> "exc", seq |-> "derived"],
     [kind |-> "exc", seq |-> "second"]}

\* the failing sets of the actions: no key, or one
FailSets == {F \in SUBSET Keys : Cardinality(F) <= 1}

Actions(m) == IF m.kind = "id" THEN Steps ELSE FailSets

ActionInits(m, f) == IF m.kind = "id" THEN StepInits(f) ELSE {0}

monad_pure(m, x) ==
    IF m.kind = "id" THEN x ELSE [ok |-> TRUE, val |-> x, log |-> <<>>]

monad_seq__right(m, a, b) ==
    IF m.kind = "id" \/ m.seq = "second" THEN b
    ELSE IF ~a.ok THEN a
    ELSE [ok |-> b.ok, val |-> b.val, log |-> a.log \o b.log]

mfold_action(m, f, k, acc) ==
    IF m.kind = "id" THEN apply_step(f, k, acc)
    ELSE [ok |-> k \notin f, val |-> acc + k, log |-> <<k>>]

mfor_action(m, f, k) ==
    IF m.kind = "id" THEN unit
    ELSE [ok |-> k \notin f, val |-> unit, log |-> <<k>>]

RECURSIVE apply_closure(_, _)
RECURSIVE l_rbnode_mfold(_, _, _, _)
RECURSIVE l_rbnode_mfold_mfor(_, _, _, _)

monad_bind(m, x, c) ==
    IF m.kind = "id" THEN apply_closure(c, x)
    ELSE IF ~x.ok THEN x
    ELSE LET r == apply_closure(c, x.val)
         IN [ok |-> r.ok, val |-> r.val, log |-> x.log \o r.log]

\* Mutant of l_rbnode_mfold_lambda__1: the continuation bound after the
\* node's action does not go into the right subtree.
mfold_lambda_no_right(x_0, x_1, x_2, x_3, x_4, x_5) ==
    LET x_7 == mfold_action(x_2, x_0, x_1, x_5)
        x_8 == [fn |-> "mfold", x_0 |-> x_2, x_1 |-> x_0, x_2 |-> leaf]
    IN monad_bind(x_4, x_7, x_8)

\* x_0 the action, x_1 the key, x_2 the dictionary, x_3 the right subtree,
\* x_4 the dictionary bind is taken from, x_5 the value bound.
l_rbnode_mfold_lambda__1(x_0, x_1, x_2, x_3, x_4, x_5) ==
    LET x_7 == mfold_action(x_2, x_0, x_1, x_5)
        x_8 == [fn |-> "mfold", x_0 |-> x_2, x_1 |-> x_0, x_2 |-> x_3]
    IN monad_bind(x_4, x_7, x_8)

\* x_0 the dictionary, x_1 the action, x_2 the key, x_3 the right subtree,
\* x_4 the dictionary bind is taken from; the value bound is dropped.
l_rbnode_mfold_mfor_lambda__1(x_0, x_1, x_2, x_3, x_4, x_5) ==
    LET x_12 == mfor_action(x_0, x_1, x_2)
        x_17 == monad_pure(x_0, unit)
        x_18 == monad_seq__right(x_0, x_12, x_17)
        x_19 == [fn |-> "mfor", x_0 |-> x_0, x_1 |-> x_1, x_2 |-> x_3]
    IN monad_bind(x_4, x_18, x_19)

apply_closure(c, a) ==
    CASE c.fn = "mfold" -> l_rbnode_mfold(c.x_0, c.x_1, c.x_2, a)
      [] c.fn = "mfold_lambda" ->
            l_rbnode_mfold_lambda__1(c.x_0, c.x_1, c.x_2, c.x_3, c.x_4, a)
      [] c.fn = "mfor" -> l_rbnode_mfold_mfor(c.x_0, c.x_1, c.x_2, a)
      [] c.fn = "mfor_lambda" ->
            l_rbnode_mfold_mfor_lambda__1(c.x_0, c.x_1, c.x_2, c.x_3, c.x_4, a)

l_rbnode_mfold(x_0, x_1, x_2, x_3) ==
    IF obj_tag(x_2) = 0
    THEN monad_pure(x_0, x_3)
    ELSE LET x_19 == x_0
             x_23 == l_rbnode_mfold(x_0, x_1, lchild(x_2), x_3)
             x_25 == [fn |-> "mfold_lambda", x_0 |-> x_1, x_1 |-> key_of(x_2),
                      x_2 |-> x_0, x_3 |-> rchild(x_2), x_4 |-> x_19]
         IN monad_bind(x_19, x_23, x_25)

l_rbtree_mfold(x_0, x_1, x_2, x_3) == l_rbnode_mfold(x_0, x_1, x_2, x_3)

l_rbnode_mfold_mfor(x_0, x_1, x_2, x_3) ==
    IF obj_tag(x_2) = 0
    THEN monad_pure(x_0, x_3)
    ELSE LET x_19 == x_0
             x_23 == l_rbnode_mfold_mfor(x_0, x_1, lchild(x_2), x_3)
             x_25 == [fn |-> "mfor_lambda", x_0 |-> x_0, x_1 |-> x_1,
                      x_2 |-> key_of(x_2), x_3 |-> rchild(x_2), x_4 |-> x_19]
         IN monad_bind(x_19, x_23, x_25)

l_rbtree_mfor(x_0, x_1, x_2) == l_rbnode_mfold_mfor(x_0, x_1, x_2, unit)

-----------------------------------------------------------------------------
(* Insertion on the reference-counted heap                                 *)
(*                                                                         *)
(* A heap H maps every address to a cell [rc, tag, l, k, v, r]; rc = 0 is  *)
(* a free cell.  An object reference is an address, or 0 for the scalar    *)
(* lean::box(0).  Keys and values are scalars.  Every operator that        *)
(* changes the heap returns a record holding the new heap H.               *)

Addr == 1..(3 * MaxKey + 3)

FreeCell == [rc |-> 0, tag |-> 0, l |-> 0, k |-> 0, v |-> 0, r |-> 0]

is_scalar(p) == p = 0

is_exclusive(H, p) == H[p].rc = 1

inc(H, p) == IF is_scalar(p) THEN H ELSE [H EXCEPT ![p].rc = @ + 1]

\* dec drops one reference; the last one frees the cell and drops the
\* references the cell holds.
RECURSIVE dec(_, _)
dec(H, p) ==
    IF is_scalar(p) THEN H
    ELSE IF H[p].rc > 1 THEN [H EXCEPT ![p].rc = @ - 1]
    ELSE dec(dec([H EXCEPT ![p] = FreeCell], H[p].l), H[p].r)

free_cells(H) == {a \in Addr : H[a].rc = 0}

\* alloc_cnstr followed by the four cnstr_set: the lowest free cell.
new_cnstr(H, tag, l, k, v, r) ==
    LET a == CHOOSE c \in free_cells(H) : \A d \in free_cells(H) : c <= d
    IN [H |-> [H EXCEPT ![a] = [rc |-> 1, tag |-> tag, l |-> l, k |-> k,
                                v |-> v, r |-> r]],
        p |-> a]

\* The fields of node p are moved out of it: a node nobody else holds is
\* freed, a shared one keeps its fields and loses one reference.
take(H, p) ==
    IF is_exclusive(H, p) THEN [H EXCEPT ![p] = FreeCell]
    ELSE [inc(inc(H, H[p].l), H[p].r) EXCEPT ![p].rc = @ - 1]

tag_at(H, p) == IF is_scalar(p) THEN 0 ELSE H[p].tag

get__color_rc(H, p) == IF tag_at(H, p) = red_tag THEN 0 ELSE 1

balance1_rc(H, l, y, yv, r, v, vv, t) ==
    IF tag_at(H, l) = red_tag
    THEN LET A == new_cnstr(take(H, l), black_tag, H[l].l, H[l].k, H[l].v, H[l].r)
             B == new_cnstr(A.H, black_tag, r, v, vv, t)
         IN new_cnstr(B.H, red_tag, A.p, y, yv, B.p)
    ELSE IF tag_at(H, r) = red_tag
    THEN LET A == new_cnstr(take(H, r), black_tag, l, y, yv, H[r].l)
             B == new_cnstr(A.H, black_tag, H[r].r, v, vv, t)
         IN new_cnstr(B.H, red_tag, A.p, H[r].k, H[r].v, B.p)
    ELSE LET A == new_cnstr(H, red_tag, l, y, yv, r)
         IN new_cnstr(A.H, black_tag, A.p, v, vv, t)

balance1__node_rc(H, n, v, vv, t) ==
    IF is_scalar(n) THEN [H |-> H, p |-> t]
    ELSE balance1_rc(take(H, n), H[n].l, H[n].k, H[n].v, H[n].r, v, vv, t)

balance2_rc(H, l, y, yv, r, v, vv, t) ==
    IF tag_at(H, l) = red_tag
    THEN LET A == new_cnstr(take(H, l), black_tag, t, v, vv, H[l].l)
             B == new_cnstr(A.H, black_tag, H[l].r, y, yv, r)
         IN new_cnstr(B.H, red_tag, A.p, H[l].k, H[l].v, B.p)
    ELSE IF tag_at(H, r) = red_tag
    THEN LET A == new_cnstr(take(H, r), black_tag, t, v, vv, l)
             B == new_cnstr(A.H, black_tag, H[r].l, H[r].k, H[r].v, H[r].r)
         IN new_cnstr(B.H, red_tag, A.p, y, yv, B.p)
    ELSE LET A == new_cnstr(H, red_tag, l, y, yv, r)
         IN new_cnstr(A.H, black_tag, t, v, vv, A.p)

balance2__node_rc(H, n, v, vv, t) ==
    IF is_scalar(n) THEN [H |-> H, p |-> t]
    ELSE balance2_rc(take(H, n), H[n].l, H[n].k, H[n].v, H[n].r, v, vv, t)

mk__insert__result_rc(H, c, n) ==
    IF tag_at(H, n) = red_tag
    THEN new_cnstr(take(H, n), black_tag, H[n].l, H[n].k, H[n].v, H[n].r)
    ELSE [H |-> H, p |-> n]

\* Mutant of ins_open: the cell is taken over whoever else holds it.
ins_open_always(H, x_1) ==
    [H |-> [H EXCEPT ![x_1] = [FreeCell EXCEPT !.rc = H[x_1].rc, !.tag = H[x_1].tag]],
     x_14 |-> x_1]

\* Mutant of ins_open: a shared cell keeps the reference the caller passed.
ins_open_keep(H, x_1) ==
    IF is_exclusive(H, x_1)
    THEN [H |-> [H EXCEPT ![x_1] = [FreeCell EXCEPT !.rc = 1, !.tag = H[x_1].tag]],
          x_14 |-> x_1]
    ELSE [H |-> inc(inc(H, H[x_1].l), H[x_1].r), x_14 |-> 0]

\* The node x_1 is opened: an exclusive cell has its four fields cleared and
\* is kept for the result (x_14); of a shared one the fields get a reference
\* each, the cell loses one, and x_14 is box(0).
ins_open(H, x_1) ==
    IF is_exclusive(H, x_1)
    THEN [H |-> [H EXCEPT ![x_1] = [FreeCell EXCEPT !.rc = 1, !.tag = H[x_1].tag]],
          x_14 |-> x_1]
    ELSE [H |-> [inc(inc(H, H[x_1].l), H[x_1].r) EXCEPT ![x_1].rc = @ - 1],
          x_14 |-> 0]

\* The result node: a fresh cell when x_14 is box(0), the cell x_14 itself
\* otherwise, with the four fields set.  inplace collects the cells reused.
ins_close(H, x_14, tag, l, k, v, r, inplace) ==
    IF is_scalar(x_14)
    THEN LET N == new_cnstr(H, tag, l, k, v, r)
         IN [H |-> N.H, p |-> N.p, inplace |-> inplace]
    ELSE [H |-> [H EXCEPT ![x_14] = [rc |-> H[x_14].rc, tag |-> tag, l |-> l,
                                     k |-> k, v |-> v, r |-> r]],
          p |-> x_14, inplace |-> inplace \cup {x_14}]

\* ins on the heap: x_1 is consumed; the result is [H, p, inplace].  The red
\* and the black case differ in the tag of the result and in the balance
\* branches, which only the black case has.
RECURSIVE l_rbnode_ins_rc(_, _, _, _, _)
l_rbnode_ins_rc(H, x_0, x_1, x_2, x_3) ==
    IF is_scalar(x_1)
    THEN LET N == new_cnstr(H, red_tag, x_1, x_2, x_3, x_1)
         IN [H |-> N.H, p |-> N.p, inplace |-> {}]
    ELSE
    LET tg == H[x_1].tag
        xl == H[x_1].l
        xk == H[x_1].k
        xv == H[x_1].v
        xr == H[x_1].r
        O == ins_open(H, x_1)
    IN IF ~apply_2(x_0, x_2, xk)
       THEN IF ~apply_2(x_0, xk, x_2)
            THEN ins_close(O.H, O.x_14, tg, xl, x_2, x_3, xr, {})
            ELSE IF tg = black_tag /\ get__color_rc(O.H, xr) = 0
                 THEN LET x_59 == l_rbnode_ins_rc(dec(O.H, O.x_14), x_0, xr, x_2, x_3)
                          x_60 == balance2__node_rc(x_59.H, x_59.p, xk, xv, xl)
                      IN [H |-> x_60.H, p |-> x_60.p, inplace |-> x_59.inplace]
                 ELSE LET x_61 == l_rbnode_ins_rc(O.H, x_0, xr, x_2, x_3)
                      IN ins_close(x_61.H, O.x_14, tg, xl, xk, xv, x_61.p,
                                   x_61.inplace)
       ELSE IF tg = black_tag /\ get__color_rc(O.H, xl) = 0
            THEN LET x_66 == l_rbnode_ins_rc(dec(O.H, O.x_14), x_0, xl, x_2, x_3)
                     x_67 == balance1__node_rc(x_66.H, x_66.p, xk, xv, xr)
                 IN [H |-> x_67.H, p |-> x_67.p, inplace |-> x_66.inplace]
            ELSE LET x_68 == l_rbnode_ins_rc(O.H, x_0, xl, x_2, x_3)
                 IN ins_close(x_68.H, O.x_14, tg, x_68.p, xk, xv, xr,
                              x_68.inplace)

l_rbnode_insert_rc(H, x_0, x_1, x_2, x_3) ==
    LET x_5 == get__color_rc(H, x_1)
        x_6 == l_rbnode_ins_rc(H, x_0, x_1, x_2, x_3)
        x_7 == mk__insert__result_rc(x_6.H, x_5, x_6.p)
    IN [H |-> x_7.H, p |-> x_7.p, inplace |-> x_6.inplace]

l_rbtree_insert_rc(H, x_0, x_1, x_2) == l_rbnode_insert_rc(H, x_0, x_1, x_2, unit)

\* the tree value a reference stands for
RECURSIVE tree_at(_, _)
tree_at(H, p) ==
    IF is_scalar(p) THEN leaf
    ELSE alloc_cnstr(H[p].tag, tree_at(H, H[p].l), H[p].k, H[p].v,
                     tree_at(H, H[p].r))

-----------------------------------------------------------------------------
(* Building a tree from a list *)

RECURSIVE l_list_foldl_from__list(_, _, _)
l_list_foldl_from__list(x_0, x_1, x_2) ==
    IF x_2 = <<>>
    THEN x_1
    ELSE l_list_foldl_from__list(x_0, l_rbnode_insert(x_0, x_1, Head(x_2), unit).n,
                                 Tail(x_2))

l_rbtree_from__list(x_0, x_2) == l_list_foldl_from__list(x_2, leaf, x_0)

-----------------------------------------------------------------------------
(* Comparators: strict weak orders given by a rank of the keys *)

\* all keys distinct
RankTotal == [k \in Keys |-> k]

\* the two greatest keys are equivalent
RankTail == [k \in Keys |-> IF k = MaxKey THEN MaxKey - 1 ELSE k]

\* keys 2 and 3 are equivalent
RankMid == [k \in Keys |-> IF k >= 3 THEN k - 1 ELSE k]

LtOfRank(rk) == {p \in Keys \X Keys : rk[p[1]] < rk[p[2]]}

Comparators == {LtOfRank(RankTotal), LtOfRank(RankTail), LtOfRank(RankMid)}

equiv(f, a, b) == ~apply_2(f, a, b) /\ ~apply_2(f, b, a)

-----------------------------------------------------------------------------
(* The client program *)

Other(h) == CHOOSE g \in Handles : g # h

\* A thread outside insert, and the state before a tree is shared.
IdleProc == [pc |-> "idle", k |-> 0, x_1 |-> 0, x_5 |-> 0, excl |-> FALSE,
             stack |-> <<>>, inplace |-> FALSE]

NoProcs == [phase |-> "build", t |-> leaf, reader |-> 0,
            w |-> [a |-> IdleProc, b |-> IdleProc]]

\* bfix has not been called.
IdleFix == [phase |-> "idle", x_0 |-> <<>>, x_1 |-> <<>>, x_2 |-> 0,
            x_3 |-> 0, stack |-> <<>>, ret |-> none, steps |-> 0,
            bases |-> 0]

\* The state before the first operation, but for the comparator.
InitRest ==
    /\ tree = [h \in Handles |-> leaf]
    /\ inserted = [h \in Handles |-> {}]
    /\ insh = "a"
    /\ inskey = 0
    /\ pre = leaf
    /\ bal = 0
    /\ opname = "init"
    /\ oph = "a"
    /\ opkey = 0
    /\ res = none
    /\ heap = [a \in Addr |-> FreeCell]
    /\ roots = [h \in Handles |-> 0]
    /\ snap = [h \in Handles |-> leaf]
    /\ reused = 0
    /\ reused_rc = {}
    /\ copied = 0
    /\ index_state = "Uninitialized"
    /\ env = <<>>
    /\ m_index = <<>>
    /\ added = <<>>
    /\ traced = {}
    /\ vm_objs = <<>>
    /\ procs = NoProcs
    /\ fx = IdleFix

Init == lt \in Comparators /\ InitRest

Insert(h, k) ==
    LET r == l_rbtree_insert(lt, tree[h], k)
    IN /\ tree' = [tree EXCEPT ![h] = r.n]
       /\ inserted' = [inserted EXCEPT ![h] = @ \cup {k}]
       /\ insh' = h
       /\ inskey' = k
       /\ pre' = tree[h]
       /\ bal' = r.calls
       /\ opname' = "insert"
       /\ oph' = h
       /\ opkey' = k
       /\ res' = none
       /\ UNCHANGED <<lt, hvars, ivars, procs, fx>>

Query(name, h, k, r) ==
    /\ opname' = name
    /\ oph' = h
    /\ opkey' = k
    /\ res' = r
    /\ UNCHANGED <<lt, tree, inserted, insh, inskey, pre, bal, hvars, ivars,
                   procs, fx>>

Find(h, k) == Query("find", h, k, l_rbtree_find(lt, tree[h], k))

Contains(h, k) == Query("contains", h, k, l_rbtree_contains(lt, tree[h], k))

ToList(h) == Query("to_list", h, 0, l_rbtree_to__list(tree[h]))

\* subset(tree[h], tree[Other(h)])
Subset(h) ==
    Query("subset", h, 0, l_rbtree_subset(lt, tree[h], tree[Other(h)]))

\* fold(f, tree[h], init) and revFold(f, tree[h], init); the result is kept
\* with the arguments of the call.
Fold(h, f, init) ==
    Query("fold", h, 0,
          [f |-> f, init |-> init, out |-> l_rbtree_fold(f, tree[h], init)])

RevFold(h, f, init) ==
    Query("rev_fold", h, 0,
          [f |-> f, init |-> init, out |-> l_rbtree_rev__fold(f, tree[h], init)])

\* all(tree[h], p) and any(tree[h], p); the result is kept with the
\* predicate.
AllOf(h, p) ==
    LET x_2 == l_rbtree_all(tree[h], p)
    IN Query("all", h, 0, [p |-> p, r |-> x_2.r, calls |-> x_2.calls])

AnyOf(h, p) ==
    LET x_2 == l_rbtree_any(tree[h], p)
    IN Query("any", h, 0, [p |-> p, r |-> x_2.r, calls |-> x_2.calls])

\* mfold(m, f, tree[h], init) and mfor(m, f, tree[h]); the result is kept
\* with the arguments of the call.
MFold(h, m, f, init) ==
    Query("mfold", h, 0,
          [m |-> m, f |-> f, init |-> init,
           out |-> l_rbtree_mfold(m, f, tree[h], init)])

MFor(h, m, f) ==
    Query("mfor", h, 0,
          [m |-> m, f |-> f, init |-> unit, out |-> l_rbtree_mfor(m, f, tree[h])])

Min(h) == Query("min", h, 0, l_rbtree_min(tree[h]))

Max(h) == Query("max", h, 0, l_rbtree_max(tree[h]))

\* seteq(tree[h], tree[Other(h)])
Seteq(h) ==
    Query("seteq", h, 0, l_rbtree_seteq(lt, tree[h], tree[Other(h)]))

\* A client holding one tree.
Next ==
    \/ \E k \in Keys : Insert("a", k)
    \/ \E k \in Keys : Find("a", k)
    \/ \E k \in Keys : Contains("a", k)
    \/ ToList("a")
    \/ Min("a")
    \/ Max("a")

Spec == Init /\ [][Next]_vars

\* A client folding over one tree.
FoldNext ==
    \/ \E k \in Keys : Insert("a", k)
    \/ \E f \in Steps : \E init \in StepInits(f) : Fold("a", f, init)
    \/ \E f \in Steps : \E init \in StepInits(f) : RevFold("a", f, init)
    \/ \E m \in Monads : \E f \in Actions(m) : \E init \in ActionInits(m, f) :
           MFold("a", m, f, init)
    \/ \E m \in Monads : \E f \in Actions(m) : MFor("a", m, f)

FoldSpec == Init /\ [][FoldNext]_vars

\* A client testing predicates on one tree.
PredNext ==
    \/ \E k \in Keys : Insert("a", k)
    \/ \E p \in Preds : AllOf("a", p)
    \/ \E p \in Preds : AnyOf("a", p)

PredSpec == Init /\ [][PredNext]_vars

\* A client holding two trees, each built by inserts of its own, and
\* comparing the first with the second.
SetNext ==
    \/ \E h \in Handles, k \in Keys : Insert(h, k)
    \/ Subset("a")
    \/ Seteq("a")

SetSpec == Init /\ [][SetNext]_vars

\* A client whose two handles refer into the reference-counted heap; tree[h]
\* follows the value roots[h] is meant to stand for.  Addresses carry no
\* meaning, so the heap is kept up to a renaming of its cells: after every
\* step the cells are numbered in the order a walk from the handles meets
\* them, followed by the cells no handle reaches.
HandleSeq == <<"a", "b">>

RECURSIVE walk(_, _, _)
walk(H, p, seq) ==
    IF is_scalar(p) \/ H[p].rc = 0 \/ \E i \in 1..Len(seq) : seq[i] = p
    THEN seq
    ELSE walk(H, H[p].r, walk(H, H[p].l, Append(seq, p)))

RECURSIVE ascending_seq(_)
ascending_seq(S) ==
    IF S = {} THEN <<>>
    ELSE LET m == CHOOSE c \in S : \A d \in S : c <= d
         IN <<m>> \o ascending_seq(S \ {m})

renumbered(H, R) ==
    LET met == walk(H, R[HandleSeq[2]], walk(H, R[HandleSeq[1]], <<>>))
        rest == {a \in Addr : H[a].rc > 0 /\ \A i \in 1..Len(met) : met[i] # a}
        seq == met \o ascending_seq(rest)
        ren(p) == IF is_scalar(p) THEN 0
                  ELSE IF \E i \in 1..Len(seq) : seq[i] = p
                       THEN CHOOSE i \in 1..Len(seq) : seq[i] = p
                       ELSE Len(seq) + 1
    IN [H |-> [a \in Addr |->
                  IF a <= Len(seq)
                  THEN [H[seq[a]] EXCEPT !.l = ren(@), !.r = ren(@)]
                  ELSE FreeCell],
        R |-> [h \in Handles |-> ren(R[h])]]

HeapOp(name, h, k, H, R) ==
    /\ LET c == renumbered(H, R)
       IN heap' = c.H /\ roots' = c.R
    /\ opname' = name
    /\ oph' = h
    /\ opkey' = k
    /\ UNCHANGED <<lt, inserted, insh, inskey, pre, bal, res, ivars, procs,
                   fx>>

\* t := insert(t, k): the handle's reference is passed on to insert.
HInsert(h, k) ==
    /\ Cardinality(free_cells(heap)) >= MaxKey + 3
    /\ LET s == l_rbtree_insert_rc(heap, lt, roots[h], k)
       IN /\ reused' = Cardinality(s.inplace)
          /\ reused_rc' = {heap[a].rc : a \in s.inplace}
          /\ copied' = Cardinality({a \in Addr : heap[a].rc >= 2
                                                 /\ s.H[a].rc < heap[a].rc})
          /\ HeapOp("insert", h, k, s.H, [roots EXCEPT ![h] = s.p])
    /\ tree' = [tree EXCEPT ![h] = l_rbtree_insert(lt, tree[h], k).n]
    /\ snap' = tree

\* The other handle becomes a second holder of h's tree.
HCopy(h) ==
    /\ roots[h] # roots[Other(h)]
    /\ HeapOp("copy", h, 0, dec(inc(heap, roots[h]), roots[Other(h)]),
              [roots EXCEPT ![Other(h)] = roots[h]])
    /\ tree' = [tree EXCEPT ![Other(h)] = tree[h]]
    /\ UNCHANGED <<snap, reused, reused_rc, copied>>

\* The handle gives up its reference.
HDrop(h) ==
    /\ ~is_scalar(roots[h])
    /\ HeapOp("drop", h, 0, dec(heap, roots[h]), [roots EXCEPT ![h] = 0])
    /\ tree' = [tree EXCEPT ![h] = leaf]
    /\ UNCHANGED <<snap, reused, reused_rc, copied>>

\* One handle is inserted into; the other holds trees obtained earlier, and
\* either may be copied to the other or dropped.
Writer == "a"

HeapNext ==
    \/ \E k \in Keys : HInsert(Writer, k)
    \/ \E h \in Handles : HCopy(h)
    \/ \E h \in Handles : HDrop(h)

HeapInit == Init /\ lt = LtOfRank(RankTotal)

HeapSpec == HeapInit /\ [][HeapNext]_vars

\* Two threads inserting into one shared tree.  ins is taken one node at a
\* time: the is_exclusive test of a node, the opening of the node with the
\* comparison, and each return into a caller are steps of their own, and the
\* steps of the two threads interleave.  inc and dec are atomic.

\* The two branches of the opening of node x_1 (the test made earlier).
ins_open_exclusive(H, x_1) ==
    [H |-> [H EXCEPT ![x_1] = [FreeCell EXCEPT !.rc = 1, !.tag = H[x_1].tag]],
     x_14 |-> x_1]

ins_open_shared(H, x_1) ==
    [H |-> dec(inc(inc(H, H[x_1].l), H[x_1].r), x_1), x_14 |-> 0]

\* A mutation of ins_visit's opening: the test is not made, the cell is
\* taken over.
ins_open_untested(H, x_1, excl) == ins_open_exclusive(H, x_1)

ins_open_tested(H, x_1, excl) ==
    IF excl THEN ins_open_exclusive(H, x_1) ELSE ins_open_shared(H, x_1)

\* ins at the node x_1, which is not box(0), up to its recursive call or, with
\* an equivalent key, to its return: ret tells which, p is the node returned,
\* next the child ins is called on and frame what the caller keeps.
ins_visit(H, x_0, x_1, x_2, x_3, excl) ==
    LET tg == H[x_1].tag
        xl == H[x_1].l
        xk == H[x_1].k
        xv == H[x_1].v
        xr == H[x_1].r
        O == ins_open_tested(H, x_1, excl)
        frame(kind, x_14) == [kind |-> kind, x_14 |-> x_14, tg |-> tg,
                              xl |-> xl, xk |-> xk, xv |-> xv, xr |-> xr]
    IN IF ~apply_2(x_0, x_2, xk)
       THEN IF ~apply_2(x_0, xk, x_2)
            THEN LET C == ins_close(O.H, O.x_14, tg, xl, x_2, x_3, xr, {})
                 IN [H |-> C.H, ret |-> TRUE, p |-> C.p]
            ELSE IF tg = black_tag /\ get__color_rc(O.H, xr) = 0
                 THEN [H |-> dec(O.H, O.x_14), ret |-> FALSE, next |-> xr,
                       frame |-> frame("balance2", 0)]
                 ELSE [H |-> O.H, ret |-> FALSE, next |-> xr,
                       frame |-> frame("right", O.x_14)]
       ELSE IF tg = black_tag /\ get__color_rc(O.H, xl) = 0
            THEN [H |-> dec(O.H, O.x_14), ret |-> FALSE, next |-> xl,
                  frame |-> frame("balance1", 0)]
            ELSE [H |-> O.H, ret |-> FALSE, next |-> xl,
                  frame |-> frame("left", O.x_14)]

\* ins from the return of its recursive call, which returned p, to its own
\* return.
ins_resume(H, f, p) ==
    CASE f.kind = "left" ->
             ins_close(H, f.x_14, f.tg, p, f.xk, f.xv, f.xr, {})
      [] f.kind = "right" ->
             ins_close(H, f.x_14, f.tg, f.xl, f.xk, f.xv, p, {})
      [] f.kind = "balance1" -> balance1__node_rc(H, p, f.xk, f.xv, f.xr)
      [] f.kind = "balance2" -> balance2__node_rc(H, p, f.xk, f.xv, f.xl)

\* The cells a step may allocate.
StepCells == 3

rvars == <<lt, tree, inserted, insh, inskey, pre, bal, oph, opkey, res, snap,
           reused, reused_rc, copied, ivars, fx>>

RaceStep(w, H, R, P) ==
    /\ heap' = H
    /\ roots' = R
    /\ procs' = [procs EXCEPT !.w[w] = P]
    /\ opname' = "race"
    /\ UNCHANGED rvars

\* The tree to be shared is built by one thread.
RaceBuild(k) ==
    /\ procs.phase = "build"
    /\ Cardinality(Addr \ free_cells(heap)) < MaxKey - 1
    /\ HInsert("a", k)

\* The other thread, and with rd a reader, get a reference to the tree.
RaceShare(rd) ==
    /\ procs.phase = "build"
    /\ heap' = IF rd THEN inc(inc(heap, roots["a"]), roots["a"])
                     ELSE inc(heap, roots["a"])
    /\ roots' = [roots EXCEPT !["b"] = roots["a"]]
    /\ procs' = [procs EXCEPT !.phase = "race", !.t = tree["a"],
                              !.reader = IF rd THEN roots["a"] ELSE 0]
    /\ opname' = "share"
    /\ UNCHANGED rvars

\* insert(t, k) is called: the thread's reference goes to the call.
RaceStart(w, k) ==
    /\ procs.phase = "race"
    /\ procs.w[w].pc = "idle"
    /\ RaceStep(w, heap, [roots EXCEPT ![w] = 0],
                [IdleProc EXCEPT !.pc = "visit", !.k = k, !.x_1 = roots[w],
                                 !.x_5 = get__color_rc(heap, roots[w])])

\* ins reaches x_1: a leaf is replaced by a new red node, of a node
\* is_exclusive is read.
RaceTest(w) ==
    LET P == procs.w[w]
    IN /\ P.pc = "visit"
       /\ Cardinality(free_cells(heap)) >= StepCells
       /\ IF is_scalar(P.x_1)
          THEN LET N == new_cnstr(heap, red_tag, P.x_1, P.k, unit, P.x_1)
               IN RaceStep(w, N.H, roots,
                           [P EXCEPT !.pc = "return", !.x_1 = N.p])
          ELSE RaceStep(w, heap, roots,
                        [P EXCEPT !.pc = "open",
                                  !.excl = is_exclusive(heap, P.x_1)])

\* The node is opened and the keys compared.
RaceOpen(w) ==
    LET P == procs.w[w]
        r == ins_visit(heap, lt, P.x_1, P.k, unit, P.excl)
    IN /\ P.pc = "open"
       /\ Cardinality(free_cells(heap)) >= StepCells
       /\ IF r.ret
          THEN RaceStep(w, r.H, roots,
                        [P EXCEPT !.pc = "return", !.x_1 = r.p,
                                  !.inplace = @ \/ P.excl])
          ELSE RaceStep(w, r.H, roots,
                        [P EXCEPT !.pc = "visit", !.x_1 = r.next,
                                  !.stack = Append(@, r.frame),
                                  !.inplace = @ \/ r.frame.x_14 # 0])

\* A call of ins returns to its caller; the outermost one returns to insert,
\* whose result the thread keeps.
RaceReturn(w) ==
    LET P == procs.w[w]
    IN /\ P.pc = "return"
       /\ Cardinality(free_cells(heap)) >= StepCells
       /\ IF P.stack = <<>>
          THEN LET r == mk__insert__result_rc(heap, P.x_5, P.x_1)
               IN RaceStep(w, r.H, [roots EXCEPT ![w] = r.p],
                           [P EXCEPT !.pc = "done", !.x_1 = 0])
          ELSE LET r == ins_resume(heap, P.stack[Len(P.stack)], P.x_1)
               IN RaceStep(w, r.H, roots,
                           [P EXCEPT !.x_1 = r.p,
                                     !.stack = SubSeq(@, 1, Len(@) - 1)])

RaceNext ==
    \/ \E k \in Keys : RaceBuild(k)
    \/ \E rd \in BOOLEAN : RaceShare(rd)
    \/ \E w \in Handles, k \in Keys : RaceStart(w, k)
    \/ \E w \in Handles : RaceTest(w)
    \/ \E w \in Handles : RaceOpen(w)
    \/ \E w \in Handles : RaceReturn(w)

RaceSpec == HeapInit /\ [][RaceNext]_vars

-----------------------------------------------------------------------------
(* The backward lemma index *)
(* src/src/library/tactic/backward/backward_lemmas.cpp.                    *)
(*                                                                         *)
(* A head_index is a record [kind, name].  A type is modelled by the       *)
(* function symbol get_app_fn finds at the head of its conclusion once the *)
(* leading binders are stripped.  A backward_lemma (a gexpr) is            *)
(* <<"name", c>> for the global declaration c or <<"local", href>> for the *)
(* local hypothesis href.  The rb_map of the head_map_prio is a function   *)
(* from the heads it has an entry for to their lists.                      *)

\* The [intro] declarations of an environment are 1..MaxDecls, in the order
\* get_attribute_instances lists them.
MaxDecls == 2

Decls == 1..MaxDecls

LEAN_DEFAULT_PRIORITY == 1000

\* The priorities an attribute instance may carry.
Prios == {5, 10, 2000}

mk_constant(n) == [kind |-> "Constant", name |-> n]

mk_local(n) == [kind |-> "Local", name |-> n]

mk_metavar(n) == [kind |-> "Meta", name |-> n]

\* The heads a conclusion may have.
Fns == {mk_constant("Foo"), mk_constant("Bar"), mk_local("x"), mk_metavar("?m")}

\* The environments the index is built from.  The constructor reads the
\* priority of a declaration only when its head is a constant, so the
\* others are given none.
Envs ==
    [Decls -> {d \in [fn : Fns, prio : {none} \cup {some(p) : p \in Prios}] :
                  d.fn.kind = "Constant" \/ d.prio = none}]

\* The types of the hypotheses of the local context.
LocalTypes ==
    <<mk_constant("Foo"), mk_constant("Foo"), mk_local("x"), mk_metavar("?m")>>

Hyps == 1..Len(LocalTypes)

\* ctx.infer(href)
ctx_infer(href) == LocalTypes[href]

\* The heads find is called with.
FindHeads == {mk_constant("Foo"), mk_constant("Bar"), mk_local("x")}

is_constant(fn) == fn.kind = "Constant"

is_local(fn) == fn.kind = "Local"

\* get_backward_target(ctx, type), on the head fn of the conclusion of type
get_backward_target(fn) ==
    IF is_constant(fn) \/ is_local(fn) THEN some(fn) ELSE none

\* get_attribute_instances(env, "intro", lemmas)
get_attribute_instances(e) == [i \in 1..Len(e) |-> i]

\* get_attribute_instances_by_prio(env, "intro"), and its get_prio(n)
get_attribute_instances_by_prio(e) == [c \in DOMAIN e |-> e[c].prio]

get_prio(m_prios, n) == m_prios[n]

backward_lemma(c) == <<"name", c>>

backward_lemma_gexpr(href) == <<"local", href>>

is_universe_polymorphic(r) == r[1] = "name"

to_name(r) == r[2]

\* Mutations of backward_lemma_prio_fn: the attribute's priority is ignored;
\* a local hypothesis is ranked above the default.
prio_fn_default_only(m_prios, r) == LEAN_DEFAULT_PRIORITY

prio_fn_local_above(m_prios, r) ==
    IF is_universe_polymorphic(r)
    THEN IF get_prio(m_prios, to_name(r)) # none
         THEN get_prio(m_prios, to_name(r))[1]
         ELSE LEAN_DEFAULT_PRIORITY
    ELSE LEAN_DEFAULT_PRIORITY + 1

\* A mutation of backward_lemma_prio_fn without the is_universe_polymorphic
\* test: a local hypothesis is looked up like a declaration.
prio_fn_untested(m_prios, r) ==
    IF to_name(r) \in DOMAIN m_prios /\ get_prio(m_prios, to_name(r)) # none
    THEN get_prio(m_prios, to_name(r))[1]
    ELSE LEAN_DEFAULT_PRIORITY

\* backward_lemma_prio_fn::operator()
backward_lemma_prio_fn(m_prios, r) ==
    IF is_universe_polymorphic(r) /\ get_prio(m_prios, to_name(r)) # none
    THEN get_prio(m_prios, to_name(r))[1]
    ELSE LEAN_DEFAULT_PRIORITY

\* head_map_prio: a list is kept by descending priority, and a new entry goes
\* behind the entries of its own priority.
RECURSIVE insert_prio(_, _, _)
insert_prio(m_prios, v, vs) ==
    IF vs = <<>>
    THEN <<v>>
    ELSE IF backward_lemma_prio_fn(m_prios, v)
            > backward_lemma_prio_fn(m_prios, Head(vs))
         THEN <<v>> \o vs
         ELSE <<Head(vs)>> \o insert_prio(m_prios, v, Tail(vs))

filter_ne(vs, v) == SelectSeq(vs, LAMBDA v2 : v2 # v)

with_entry(m, h, vs) ==
    [g \in DOMAIN m \cup {h} |-> IF g = h THEN vs ELSE m[g]]

without_entry(m, h) == [g \in DOMAIN m \ {h} |-> m[g]]

head_map_find(m, h) == IF h \in DOMAIN m THEN some(m[h]) ELSE none

head_map_insert(m_prios, m, h, v) ==
    IF h \in DOMAIN m
    THEN with_entry(m, h, insert_prio(m_prios, v, filter_ne(m[h], v)))
    ELSE with_entry(m, h, <<v>>)

head_map_erase(m, h, v) ==
    IF h \in DOMAIN m
    THEN IF filter_ne(m[h], v) = <<>>
         THEN without_entry(m, h)
         ELSE with_entry(m, h, filter_ne(m[h], v))
    ELSE m

\* A mutation of the loop: it ends at the first declaration it discards.
RECURSIVE build_loop_abort(_, _, _)
build_loop_abort(e, i, s) ==
    IF i > 0
    THEN LET c == get_attribute_instances(e)[i]
             target == get_backward_target(e[c].fn)
         IN IF target = none \/ target[1].kind # "Constant"
            THEN [s EXCEPT !.traced = @ \cup {c}]
            ELSE build_loop_abort(e, i - 1,
                     [s EXCEPT
                        !.map = head_map_insert(
                                    get_attribute_instances_by_prio(e), @,
                                    target[1], backward_lemma(c)),
                        !.calls = Append(@, <<target[1], backward_lemma(c)>>)])
    ELSE s

\* The loop of the constructor, from lemmas[i] down to lemmas[1]; s is the
\* map, the declarations traced and the m_index.insert calls made so far.
RECURSIVE build_loop(_, _, _)
build_loop(e, i, s) ==
    IF i > 0
    THEN LET c == get_attribute_instances(e)[i]
             target == get_backward_target(e[c].fn)
         IN IF target = none \/ target[1].kind # "Constant"
            THEN build_loop(e, i - 1, [s EXCEPT !.traced = @ \cup {c}])
            ELSE build_loop(e, i - 1,
                     [s EXCEPT
                        !.map = head_map_insert(
                                    get_attribute_instances_by_prio(e), @,
                                    target[1], backward_lemma(c)),
                        !.calls = Append(@, <<target[1], backward_lemma(c)>>)])
    ELSE s

\* backward_lemma_index::backward_lemma_index(ctx)
backward_lemma_index(e) ==
    build_loop(e, Len(get_attribute_instances(e)),
               [map |-> <<>>, traced |-> {}, calls |-> <<>>])

\* A mutation of insert: like the constructor, it takes constant heads only.
index_insert_constant_only(m_prios, m, href) ==
    LET target == get_backward_target(ctx_infer(href))
    IN IF target # none /\ target[1].kind = "Constant"
       THEN [map |-> head_map_insert(m_prios, m, target[1],
                                     backward_lemma_gexpr(href)),
             calls |-> << <<target[1], backward_lemma_gexpr(href)>> >>]
       ELSE [map |-> m, calls |-> <<>>]

\* backward_lemma_index::insert(ctx, href): the new map and the
\* m_index.insert calls made
index_insert(m_prios, m, href) ==
    LET target == get_backward_target(ctx_infer(href))
    IN IF target # none
       THEN [map |-> head_map_insert(m_prios, m, target[1],
                                     backward_lemma_gexpr(href)),
             calls |-> << <<target[1], backward_lemma_gexpr(href)>> >>]
       ELSE [map |-> m, calls |-> <<>>]

\* A mutation of erase: the whole entry of the head is dropped.
index_erase_head(m, href) ==
    LET target == get_backward_target(ctx_infer(href))
    IN IF target # none
       THEN [map |-> without_entry(m, target[1]),
             calls |-> << <<target[1], backward_lemma_gexpr(href)>> >>]
       ELSE [map |-> m, calls |-> <<>>]

\* backward_lemma_index::erase(ctx, href): the new map and the m_index.erase
\* calls made
index_erase(m, href) ==
    LET target == get_backward_target(ctx_infer(href))
    IN IF target # none
       THEN [map |-> head_map_erase(m, target[1], backward_lemma_gexpr(href)),
             calls |-> << <<target[1], backward_lemma_gexpr(href)>> >>]
       ELSE [map |-> m, calls |-> <<>>]

\* A mutation of find: the pointer m_index.find returned is handed on as it
\* is.
index_find_unguarded(m, h) ==
    IF head_map_find(m, h) # none
    THEN head_map_find(m, h)[1]
    ELSE <<head_map_find(m, h)>>

\* backward_lemma_index::find(h)
index_find(m, h) ==
    IF head_map_find(m, h) # none
    THEN head_map_find(m, h)[1]
    ELSE <<>>

\* The record of the entries m_index holds: an insert call puts its pair
\* last, an erase call takes its pair out.
RECURSIVE after_inserts(_, _)
after_inserts(log, calls) ==
    IF calls = <<>>
    THEN log
    ELSE after_inserts(Append(filter_ne(log, Head(calls)), Head(calls)),
                       Tail(calls))

RECURSIVE after_erases(_, _)
after_erases(log, calls) ==
    IF calls = <<>>
    THEN log
    ELSE after_erases(filter_ne(log, Head(calls)), Tail(calls))

tvars == <<lt, tree, inserted, insh, inskey, pre, bal, oph, hvars, procs, fx>>

\* build(env): Uninitialized -> Ready
Build(e) ==
    /\ index_state = "Uninitialized"
    /\ LET s == backward_lemma_index(e)
       IN /\ m_index' = s.map
          /\ traced' = s.traced
          /\ added' = after_inserts(<<>>, s.calls)
    /\ index_state' = "Ready"
    /\ env' = e
    /\ opname' = "build"
    /\ opkey' = 0
    /\ res' = none
    /\ UNCHANGED <<tvars, vm_objs>>

\* insert(ctx, href); r is what is kept of the call
IndexInsertRes(href, r) ==
    /\ index_state = "Ready"
    /\ LET s == index_insert(get_attribute_instances_by_prio(env), m_index,
                             href)
       IN /\ m_index' = s.map
          /\ added' = after_inserts(added, s.calls)
    /\ opname' = "index_insert"
    /\ opkey' = 0
    /\ res' = r
    /\ UNCHANGED <<tvars, index_state, env, traced, vm_objs>>

IndexInsert(href) == IndexInsertRes(href, none)

\* erase(ctx, href); r is what is kept of the call
IndexEraseRes(href, r) ==
    /\ index_state = "Ready"
    /\ LET s == index_erase(m_index, href)
       IN /\ m_index' = s.map
          /\ added' = after_erases(added, s.calls)
    /\ opname' = "index_erase"
    /\ opkey' = 0
    /\ res' = r
    /\ UNCHANGED <<tvars, index_state, env, traced, vm_objs>>

IndexErase(href) == IndexEraseRes(href, none)

IndexFind(h) ==
    /\ index_state = "Ready"
    /\ opname' = "index_find"
    /\ opkey' = h
    /\ res' = index_find(m_index, h)
    /\ UNCHANGED <<tvars, ivars>>

IndexNext ==
    \/ \E e \in Envs : Build(e)
    \/ \E href \in Hyps : IndexInsert(href)
    \/ \E href \in Hyps : IndexErase(href)
    \/ \E h \in FindHeads : IndexFind(h)

IndexInit == Init /\ lt = LtOfRank(RankTotal)

IndexSpec == IndexInit /\ [][IndexNext]_vars

\* What an [intro] attribute instance records of its declaration.
DeclInfos == [fn : Fns, prio : {none} \cup {some(p) : p \in Prios}]

\* A mutation of the validation: a local head is accepted.
on_set_accepts_local(e, c) ==
    IF get_backward_target(e[c].fn) = none
    THEN [raised |-> TRUE]
    ELSE [raised |-> FALSE, env |-> e]

\* The procedure initialize_backward_lemmas registers with the "intro"
\* attribute, called on the environment env and the declaration c: it throws
\* or returns env.
intro_on_set(e, c) ==
    IF get_backward_target(e[c].fn) = none
       \/ get_backward_target(e[c].fn)[1].kind # "Constant"
    THEN [raised |-> TRUE]
    ELSE [raised |-> FALSE, env |-> e]

\* The attribute manager setting the attribute on a new declaration: the
\* environment with the instance goes through the procedure, and an
\* exception leaves the caller with the environment it had.
set_attribute(e, d) ==
    LET r == intro_on_set(Append(e, d), Len(e) + 1)
    IN IF r.raised
       THEN [raised |-> TRUE, env |-> e]
       ELSE [raised |-> FALSE, env |-> r.env]

\* [intro] is put on a declaration d.
SetAttribute(d) ==
    /\ index_state = "Uninitialized"
    /\ Len(env) < MaxDecls
    /\ LET r == set_attribute(env, d)
       IN /\ env' = r.env
          /\ res' = [decl |-> d, before |-> env, raised |-> r.raised]
    /\ opname' = "set_attribute"
    /\ opkey' = 0
    /\ UNCHANGED <<tvars, index_state, m_index, added, traced, vm_objs>>

\* The index is built from the declarations that carry the attribute.
BuildFromEnv == Build(env)

AttrNext ==
    \/ \E d \in DeclInfos : SetAttribute(d)
    \/ BuildFromEnv
    \/ \E h \in FindHeads : IndexFind(h)

AttrSpec == IndexInit /\ [][AttrNext]_vars

\* insert and erase with the hypothesis and the map before the call kept; an
\* erase that follows the insert of its hypothesis also keeps the map that
\* insert was applied to.
InsertLogged(href) ==
    IndexInsertRes(href, [href |-> href, before |-> m_index])

EraseLogged(href) ==
    IndexEraseRes(href,
        [href |-> href, before |-> m_index,
         inserted_into |-> IF opname = "index_insert" /\ res.href = href
                           THEN some(res.before)
                           ELSE none])

EraseNext ==
    \/ \E d \in DeclInfos : SetAttribute(d)
    \/ BuildFromEnv
    \/ \E href \in Hyps : InsertLogged(href)
    \/ \E href \in Hyps : EraseLogged(href)
    \/ \E h \in FindHeads : IndexFind(h)

EraseSpec == IndexInit /\ [][EraseNext]_vars

\* The vm_backward_lemmas objects a tactic run may allocate.
MaxObjs == 3

\* to_backward_lemmas(o)
to_backward_lemmas(objs, o) == objs[o]

\* to_obj(idx): a new vm_backward_lemmas object that holds a copy of idx
to_obj(objs, idx) == [objs |-> Append(objs, idx), o |-> Len(objs) + 1]

\* tactic_mk_backward_lemmas
tactic_mk_backward_lemmas(objs, e) == to_obj(objs, backward_lemma_index(e).map)

\* A mutation of tactic_backward_lemmas_insert: new_lemmas is a reference to
\* the index of the object it was given.
tactic_insert_by_reference(m_prios, objs, lemmas, lemma) ==
    LET new_lemmas == index_insert(m_prios, to_backward_lemmas(objs, lemmas),
                                   lemma).map
    IN to_obj([objs EXCEPT ![lemmas] = new_lemmas], new_lemmas)

\* tactic_backward_lemmas_insert: new_lemmas is a copy of the index of the
\* object lemmas, the hypothesis is inserted into the copy, and the copy goes
\* into a new object.
tactic_backward_lemmas_insert(m_prios, objs, lemmas, lemma) ==
    LET new_lemmas == index_insert(m_prios, to_backward_lemmas(objs, lemmas),
                                   lemma).map
    IN to_obj(objs, new_lemmas)

\* tactic_backward_lemmas_find
tactic_backward_lemmas_find(objs, lemmas, h) ==
    index_find(to_backward_lemmas(objs, lemmas), h)

TacticMk ==
    /\ index_state = "Uninitialized"
    /\ vm_objs' = tactic_mk_backward_lemmas(vm_objs, env).objs
    /\ index_state' = "Ready"
    /\ opname' = "tactic_mk"
    /\ opkey' = 0
    /\ res' = none
    /\ UNCHANGED <<tvars, env, m_index, added, traced>>

TacticInsert(lemmas, lemma) ==
    /\ index_state = "Ready"
    /\ lemmas \in DOMAIN vm_objs
    /\ Len(vm_objs) < MaxObjs
    /\ LET r == tactic_backward_lemmas_insert(
                    get_attribute_instances_by_prio(env), vm_objs, lemmas,
                    lemma)
       IN /\ vm_objs' = r.objs
          /\ res' = [lemmas |-> lemmas, lemma |-> lemma, before |-> vm_objs,
                     o |-> r.o]
    /\ opname' = "tactic_insert"
    /\ opkey' = 0
    /\ UNCHANGED <<tvars, index_state, env, m_index, added, traced>>

TacticFind(lemmas, h) ==
    /\ index_state = "Ready"
    /\ lemmas \in DOMAIN vm_objs
    /\ opname' = "tactic_find"
    /\ opkey' = h
    /\ res' = tactic_backward_lemmas_find(vm_objs, lemmas, h)
    /\ UNCHANGED <<tvars, ivars>>

TacticNext ==
    \/ \E d \in DeclInfos : SetAttribute(d)
    \/ TacticMk
    \/ \E lemmas \in 1..MaxObjs, lemma \in Hyps : TacticInsert(lemmas, lemma)
    \/ \E lemmas \in 1..MaxObjs, h \in FindHeads : TacticFind(lemmas, h)

TacticSpec == IndexInit /\ [][TacticNext]_vars

-----------------------------------------------------------------------------
(* Vocabulary of the properties *)

RECURSIVE keys_of(_)
keys_of(x) ==
    IF x = leaf THEN {} ELSE keys_of(lchild(x)) \cup {key_of(x)} \cup keys_of(rchild(x))

RECURSIVE size_of(_)
size_of(x) == IF x = leaf THEN 0 ELSE size_of(lchild(x)) + 1 + size_of(rchild(x))

\* the tree with every key and value erased: structure and colours only
RECURSIVE shape(_)
shape(x) ==
    IF x = leaf THEN leaf ELSE <<obj_tag(x), shape(lchild(x)), shape(rchild(x))>>

RECURSIVE no_red_red(_)
no_red_red(x) ==
    \/ x = leaf
    \/ /\ obj_tag(x) = red_tag =>
             obj_tag(lchild(x)) # red_tag /\ obj_tag(rchild(x)) # red_tag
       /\ no_red_red(lchild(x))
       /\ no_red_red(rchild(x))

\* the black nodes on every root-to-leaf path, or -1 when two paths differ
RECURSIVE black_height(_)
black_height(x) ==
    IF x = leaf THEN 0
    ELSE LET hl == black_height(lchild(x))
             hr == black_height(rchild(x))
         IN IF hl < 0 \/ hr < 0 \/ hl # hr THEN -1
            ELSE hl + (IF obj_tag(x) = black_tag THEN 1 ELSE 0)

RECURSIVE red_nodes(_)
red_nodes(x) ==
    IF x = leaf THEN 0
    ELSE red_nodes(lchild(x)) + red_nodes(rchild(x))
            + (IF obj_tag(x) = red_tag THEN 1 ELSE 0)

has_equiv(f, S, k) == \E j \in S : equiv(f, j, k)

ascending(f, s) == \A i \in 1..(Len(s) - 1) : apply_2(f, s[i], s[i + 1])

one_per_class(f, s, S) ==
    /\ \A i \in 1..Len(s) : s[i] \in S
    /\ \A k \in S : Cardinality({i \in 1..Len(s) : equiv(f, s[i], k)}) = 1

\* the keys in the order left subtree, node, right subtree
RECURSIVE inorder(_)
inorder(x) ==
    IF x = leaf THEN <<>> ELSE inorder(lchild(x)) \o <<key_of(x)>> \o inorder(rchild(x))

reverse(s) == [i \in 1..Len(s) |-> s[Len(s) + 1 - i]]

RECURSIVE sum_of(_)
sum_of(s) == IF s = <<>> THEN 0 ELSE Head(s) + sum_of(Tail(s))

\* s holds every element of S once and nothing else
lists_once(s, S) ==
    /\ Len(s) = Cardinality(S)
    /\ {s[i] : i \in 1..Len(s)} = S

is_prefix(s, t) == Len(s) <= Len(t) /\ \A i \in 1..Len(s) : s[i] = t[i]

\* the keys in the order node, left subtree, right subtree
RECURSIVE preorder(_)
preorder(x) ==
    IF x = leaf THEN <<>>
    ELSE <<key_of(x)>> \o preorder(lchild(x)) \o preorder(rchild(x))

\* s up to and including its first element in F
RECURSIVE first_cut(_, _)
first_cut(s, F) ==
    IF s = <<>> THEN <<>>
    ELSE IF Head(s) \in F THEN <<Head(s)>>
    ELSE <<Head(s)>> \o first_cut(Tail(s), F)

ScenarioKeys == <<5, 3, 8, 1, 4, 7, 9>>

ScenarioLt == {p \in (1..9) \X (1..9) : p[1] < p[2]}

-----------------------------------------------------------------------------
(* A client with an arbitrary comparator *)

\* Every relation on the first keys is a comparator; the tree is kept to
\* MaxKey nodes.
CmpKeys == 1..(MaxKey - 2)

AnyComparators == SUBSET (CmpKeys \X CmpKeys)

\* The nodes ins is called on, from the call insert makes to the innermost.
RECURSIVE ins_calls(_, _, _)
ins_calls(x_0, x_1, x_2) ==
    IF obj_tag(x_1) = 0
    THEN <<x_1>>
    ELSE IF ~apply_2(x_0, x_2, key_of(x_1))
         THEN IF ~apply_2(x_0, key_of(x_1), x_2)
              THEN <<x_1>>
              ELSE <<x_1>> \o ins_calls(x_0, rchild(x_1), x_2)
         ELSE <<x_1>> \o ins_calls(x_0, lchild(x_1), x_2)

\* The nodes find_core is called on.
RECURSIVE find__core_calls(_, _, _)
find__core_calls(x_0, x_1, x_2) ==
    IF obj_tag(x_1) = 0
    THEN <<x_1>>
    ELSE IF ~apply_2(x_0, x_2, key_of(x_1))
         THEN IF ~apply_2(x_0, key_of(x_1), x_2)
              THEN <<x_1>>
              ELSE <<x_1>> \o find__core_calls(x_0, rchild(x_1), x_2)
         ELSE <<x_1>> \o find__core_calls(x_0, lchild(x_1), x_2)

CmpInsert(k) ==
    /\ size_of(tree["a"]) < MaxKey
    /\ Insert("a", k)

CmpFind(k) == Find("a", k)

CmpNext ==
    \/ \E k \in CmpKeys : CmpInsert(k)
    \/ \E k \in CmpKeys : CmpFind(k)

CmpInit == lt \in AnyComparators /\ InitRest

CmpSpec == CmpInit /\ [][CmpNext]_vars

-----------------------------------------------------------------------------
(* The bounded fixpoint combinator *)

MaxFuel == 2

\* The arguments and values: two of them.
Args == {0, 1}

\* A base closure maps the argument to a value.
Bases == [Args -> Args]

\* A step closure, given the continuation and the argument a, calls the
\* continuation on each argument of script[a] in turn, and returns a plus the
\* values the continuation returned (modulo 2).
Scripts == {<<>>} \cup {<<b>> : b \in Args} \cup {<<b, c>> : b, c \in Args}

StepClosures == [Args -> Scripts]

\* lean::alloc_closure(l_bfix___main___rarg___boxed, 4, 3) with its three
\* fixed arguments
alloc_closure(x_0, x_1, x_2) == [x_0 |-> x_0, x_1 |-> x_1, x_2 |-> x_2]

nat_sub(a, b) == IF a >= b THEN a - b ELSE 0

\* Mutant of l_bfix___main___rarg: the continuation keeps the fuel x_2.
bfix_same_fuel(x_0, x_1, x_2, x_3) ==
    IF x_2 # 0
    THEN [apply |-> "step", f |-> x_1,
          x_9 |-> alloc_closure(x_0, x_1, x_2), a |-> x_3]
    ELSE [apply |-> "base", f |-> x_0, a |-> x_3]

\* l_bfix___main___rarg up to the call it ends with: apply_2(x_1, x_9, x_3)
\* with x_9 the closure of bfix over x_0, x_1 and x_2 - 1, or
\* apply_1(x_0, x_3) when x_2 is 0.
l_bfix___main___rarg(x_0, x_1, x_2, x_3) ==
    IF x_2 # 0
    THEN LET x_7 == nat_sub(x_2, 1)
         IN [apply |-> "step", f |-> x_1,
             x_9 |-> alloc_closure(x_0, x_1, x_7), a |-> x_3]
    ELSE [apply |-> "base", f |-> x_0, a |-> x_3]

\* The run-time's word size, scaled to the fuel bound.
l_usize__sz == MaxFuel

\* the closure of l_fix_u_2084___rarg___lambda__1 over x_0: it returns x_0
fix_lambda__1(x_0) == [a \in Args |-> x_0]

bfix_frame(x_0, x_1, x_2, x_3) ==
    [fn |-> "bfix", pc |-> "start", x_0 |-> x_0, x_1 |-> x_1, x_2 |-> x_2,
     x_3 |-> x_3]

step_frame(c) ==
    [fn |-> "step", x_9 |-> c.x_9, a |-> c.a, todo |-> c.f[c.a],
     acc |-> c.a]

top == fx.stack[Len(fx.stack)]

pop(st) == SubSeq(st, 1, Len(st) - 1)

with_top(st, f) == [st EXCEPT ![Len(st)] = f]

\* the state after the outermost activation returned v
returned(v, st) ==
    IF st = <<>> THEN [fx EXCEPT !.phase = "done", !.stack = st,
                                 !.ret = some(v)]
    ELSE [fx EXCEPT !.stack = st, !.ret = some(v)]

fvars == <<lt, tree, inserted, insh, inskey, pre, bal, opname, oph, opkey, res,
           hvars, ivars, procs>>

\* The client calls bfix base step n a.
BfixStart(x_0, x_1, x_2, x_3) ==
    /\ fx.phase = "idle"
    /\ fx' = [phase |-> "run", x_0 |-> x_0, x_1 |-> x_1, x_2 |-> x_2,
              x_3 |-> x_3, stack |-> <<bfix_frame(x_0, x_1, x_2, x_3)>>,
              ret |-> none, steps |-> 0, bases |-> 0]
    /\ UNCHANGED fvars

BfixCall == \E x_0 \in Bases, x_1 \in StepClosures, x_2 \in 0..MaxFuel, x_3 \in Args :
               BfixStart(x_0, x_1, x_2, x_3)

\* fix_4 default step a: bfix with the word size as the fuel and the
\* closure that returns the default as the base.
FixCall == \E x_0 \in Args, x_1 \in StepClosures, x_2 \in Args :
              BfixStart(fix_lambda__1(x_0), x_1, l_usize__sz, x_2)

\* An activation of bfix tests its fuel and makes its call: the base closure
\* returns at once, the step closure is entered.
BfixEnter ==
    /\ fx.phase = "run" /\ top.fn = "bfix" /\ top.pc = "start"
    /\ LET c == l_bfix___main___rarg(top.x_0, top.x_1, top.x_2, top.x_3)
       IN IF c.apply = "base"
          THEN fx' = [returned(c.f[c.a], pop(fx.stack))
                         EXCEPT !.bases = fx.bases + 1]
          ELSE fx' = [fx EXCEPT !.stack = Append(with_top(fx.stack,
                                      [top EXCEPT !.pc = "wait"]),
                                      step_frame(c)),
                                !.steps = fx.steps + 1]
    /\ UNCHANGED fvars

\* An activation of bfix returns what its call returned.
BfixReturn ==
    /\ fx.phase = "run" /\ top.fn = "bfix" /\ top.pc = "wait"
    /\ fx.ret # none
    /\ fx' = returned(fx.ret[1], pop(fx.stack))
    /\ UNCHANGED fvars

\* The step closure calls its continuation on the next argument of its
\* script: l_bfix___main___rarg___boxed with the closure's three arguments.
StepCall ==
    /\ fx.phase = "run" /\ top.fn = "step" /\ fx.ret = none
    /\ top.todo # <<>>
    /\ fx' = [fx EXCEPT !.stack = Append(with_top(fx.stack,
                                     [top EXCEPT !.todo = Tail(top.todo)]),
                                     bfix_frame(top.x_9.x_0, top.x_9.x_1,
                                                top.x_9.x_2, Head(top.todo)))]
    /\ UNCHANGED fvars

\* The step closure takes the value its continuation returned.
StepTake ==
    /\ fx.phase = "run" /\ top.fn = "step" /\ fx.ret # none
    /\ fx' = [fx EXCEPT !.stack = with_top(fx.stack,
                  [top EXCEPT !.acc = (top.acc + fx.ret[1]) % Cardinality(Args)]),
                        !.ret = none]
    /\ UNCHANGED fvars

\* The step closure returns.
StepReturn ==
    /\ fx.phase = "run" /\ top.fn = "step" /\ fx.ret = none
    /\ top.todo = <<>>
    /\ fx' = returned(top.acc, pop(fx.stack))
    /\ UNCHANGED fvars

BfixRun == BfixEnter \/ BfixReturn \/ StepCall \/ StepTake \/ StepReturn

BfixNext ==
    \/ BfixCall
    \/ FixCall
    \/ BfixEnter
    \/ BfixReturn
    \/ StepCall
    \/ StepTake
    \/ StepReturn

\* The thread that called bfix runs until the call returns.
BfixSpec == IndexInit /\ [][BfixNext]_vars /\ WF_vars(BfixRun)

-----------------------------------------------------------------------------
(* Properties *)

\* C1: for every tree built from the empty tree by inserts under a strict
\* weak order, toList is strictly ascending under the comparator and holds
\* exactly one key per equivalence class of the inserted keys; inserting
\* 5,3,8,1,4,7,9 gives 1,3,4,5,7,8,9.
C1_ToListAscending ==
    opname = "to_list" =>
        /\ ascending(lt, res)
        /\ one_per_class(lt, res, inserted[oph])
        /\ l_rbtree_to__list(l_rbtree_from__list(ScenarioKeys, ScenarioLt))
              = <<1, 3, 4, 5, 7, 8, 9>>

C1_Witness ==
    /\ opname = "to_list"
    /\ Len(res) >= 3
    /\ Cardinality(inserted[oph]) > Len(res)

\* C2: in every tree returned by insert no red node has a red child.
C2_NoRedRed == \A h \in Handles : no_red_red(tree[h])

C2_Witness ==
    /\ opname = "insert"
    /\ bal > 0
    /\ size_of(tree[insh]) = size_of(pre) + 1
    /\ red_nodes(tree[insh]) > 0

\* C3: in every tree returned by insert every path from the root to a leaf
\* passes through the same number of black nodes.
C3_BlackHeight == \A h \in Handles : black_height(tree[h]) >= 0

C3_Witness ==
    /\ opname = "insert"
    /\ black_height(tree[insh]) = 2
    /\ size_of(tree[insh]) > size_of(pre)

\* C4: find(insert(t,k),k) is Some of the key just inserted, which replaces
\* any equivalent key stored before, and contains(insert(t,k),k) is true.
C4_InsertThenFind ==
    (inskey # 0 /\ oph = insh /\ opkey = inskey) =>
        /\ opname = "find" => res = some(inskey)
        /\ opname = "contains" => res = TRUE

C4_Witness ==
    /\ opname = "find"
    /\ oph = insh
    /\ opkey = inskey
    /\ res = some(inskey)
    /\ l_rbtree_find(lt, pre, inskey) # none
    /\ l_rbtree_find(lt, pre, inskey) # some(inskey)

\* C5: insert is persistent.  A handle other than the one inserted into
\* still holds the tree it held before (same structure, colours and keys),
\* the handle inserted into holds insert's result, and every cell ins
\* overwrote in place had reference count 1 when insert was called.
C5_Persistent ==
    opname = "insert" =>
        /\ \A g \in Handles \ {oph} : tree_at(heap, roots[g]) = snap[g]
        /\ tree_at(heap, roots[oph]) = l_rbtree_insert(lt, snap[oph], opkey).n
        /\ reused_rc \subseteq {1}

\* an insert that reused its root cell and went through a cell the other
\* handle's tree shares
C5_Witness ==
    /\ opname = "insert"
    /\ reused > 0
    /\ copied > 0
    /\ snap[Other(oph)] # leaf
    /\ tree_at(heap, roots[oph]) # snap[oph]

\* the last insert met a key equivalent to the one inserted
Replaced == opname = "insert" /\ has_equiv(lt, keys_of(pre), inskey)

\* the tree with the stored key equivalent to k replaced by k
RECURSIVE with_key(_, _, _)
with_key(f, x, k) ==
    IF x = leaf THEN leaf
    ELSE alloc_cnstr(obj_tag(x), with_key(f, lchild(x), k),
                     IF equiv(f, key_of(x), k) THEN k ELSE key_of(x),
                     val_of(x), with_key(f, rchild(x), k))

C9_FindTotal ==
    opname = "find" =>
        /\ res = none <=> ~has_equiv(lt, inserted[oph], opkey)
        /\ res # none => res \in {some(k) : k \in keys_of(tree[oph])}
        /\ tree[oph] = leaf => res = none

C9_Witness ==
    /\ opname = "find"
    /\ res = none
    /\ size_of(tree[oph]) >= 3

\* C10: subset(t1,t2) is true exactly when every key stored in t1 is found
\* in t2: t1 is traversed and t2 searched.
C10_Subset ==
    opname = "subset" =>
        (res <=> \A k \in keys_of(tree[oph]) :
                    l_rbtree_find(lt, tree[Other(oph)], k) # none)

C10_Witness ==
    /\ opname = "subset"
    /\ res = TRUE
    /\ size_of(tree[oph]) >= 2
    /\ ~l_rbtree_subset(lt, tree[Other(oph)], tree[oph])

\* C11: seteq(t1,t2) is subset(t1,t2) and subset(t2,t1), the first evaluated
\* first; when subset(t1,t2) is false the result is false and no key of t2
\* is looked up in t1.
C11_Seteq ==
    opname = "seteq" =>
        LET t1 == tree[oph]
            t2 == tree[Other(oph)]
        IN /\ res.r = (l_rbtree_subset(lt, t1, t2) /\ l_rbtree_subset(lt, t2, t1))
           /\ ~l_rbtree_subset(lt, t1, t2) => (res.r = FALSE /\ res.in1 = <<>>)
           /\ (t1 # leaf /\ res.r) => (res.in2 # <<>> /\ res.in1 # <<>>)

\* a seteq cut short although the second tree holds keys
C11_Witness ==
    /\ opname = "seteq"
    /\ res.r = FALSE
    /\ res.in1 = <<>>
    /\ Len(res.in2) >= 2
    /\ size_of(tree[Other(oph)]) >= 2

\* C12: for every tree t built by inserts subset(t,t) and seteq(t,t) are
\* true, and for every key k equivalent to no key of t
\* subset(insert(t,k), t) is false.
C12_SubsetReflexive ==
    LET t1 == tree[oph]
        t2 == tree[Other(oph)]
    IN /\ (opname = "subset" /\ t1 = t2) => res = TRUE
       /\ (opname = "seteq" /\ t1 = t2) => res.r = TRUE
       /\ opname = "subset" =>
             \A k \in Keys :
                 (~has_equiv(lt, keys_of(t2), k)
                      /\ t1 = l_rbtree_insert(lt, t2, k).n) => res = FALSE

\* subset(insert(t,k), t) was asked for a tree t of three keys or more and a
\* key k that went below the root
C12_Witness ==
    /\ opname = "subset"
    /\ res = FALSE
    /\ size_of(tree[Other(oph)]) >= 3
    /\ \E k \in Keys :
          /\ ~has_equiv(lt, keys_of(tree[Other(oph)]), k)
          /\ tree[oph] = l_rbtree_insert(lt, tree[Other(oph)], k).n
          /\ key_of(tree[oph]) # k

\* C13: fold applies the step to every stored key exactly once, in the order
\* left subtree, node, right subtree, threading the accumulator from init;
\* revFold does so in the reverse order; on the empty tree both return init
\* and the step is not called.
C13_FoldInOrder ==
    opname \in {"fold", "rev_fold"} =>
        LET seq == IF opname = "fold" THEN inorder(tree[oph])
                   ELSE reverse(inorder(tree[oph]))
        IN /\ res.f = "snoc" => res.out = res.init \o seq
           /\ res.f = "add" => res.out = res.init + sum_of(seq)
           /\ tree[oph] = leaf => res.out = res.init

\* a revFold over three keys or more that appended to a non-empty accumulator
C13_Witness ==
    /\ opname = "rev_fold"
    /\ res.f = "snoc"
    /\ res.init # <<>>
    /\ Len(res.out) >= 4
    /\ lchild(tree[oph]) # leaf
    /\ rchild(tree[oph]) # leaf

\* C14: all(t,p) is the conjunction and any(t,p) the disjunction of p over
\* the stored keys (true and false on the empty tree), and both stop at the
\* first key that decides: the predicate is applied to no key twice, only to
\* stored keys, and to no key after one on which it returned false (all) or
\* true (any); without such a key it is applied to every stored key.
C14_AllAnyShortCircuit ==
    opname \in {"all", "any"} =>
        LET S == keys_of(tree[oph])
            n == Len(res.calls)
            stop == (opname = "any")
        IN /\ opname = "all" => res.r = (\A k \in S : apply_1(res.p, k))
           /\ opname = "any" => res.r = (\E k \in S : apply_1(res.p, k))
           /\ tree[oph] = leaf => res.r = ~stop /\ n = 0
           /\ lists_once(res.calls, {res.calls[i] : i \in 1..n})
           /\ {res.calls[i] : i \in 1..n} \subseteq S
           /\ \A i \in 1..(n - 1) : apply_1(res.p, res.calls[i]) = ~stop
           /\ res.r = ~stop => lists_once(res.calls, S)
           /\ res.r = stop => apply_1(res.p, res.calls[n]) = stop

\* an all that stopped after two keys of four, the last of them failing
C14_Witness ==
    /\ opname = "all"
    /\ res.r = FALSE
    /\ Len(res.calls) = 2
    /\ size_of(tree[oph]) >= 4
    /\ Cardinality(keys_of(tree[oph]) \ res.p) = 1

\* C15 as stated: the keys the predicate of all or any is applied to are a
\* prefix of the ascending toList sequence.
C15_InOrderPrefix ==
    opname \in {"all", "any"} =>
        is_prefix(res.calls, l_rbtree_to__list(tree[oph]))

\* C15 amended: the keys the predicate of all or any is applied to are a
\* prefix of the sequence node, left subtree, right subtree.
C15_PreOrderPrefix ==
    opname \in {"all", "any"} => is_prefix(res.calls, preorder(tree[oph]))

\* an any that went through the root, its left subtree and into its right
\* subtree
C15_Witness ==
    /\ opname = "any"
    /\ Len(res.calls) >= 3
    /\ lchild(tree[oph]) # leaf
    /\ res.calls[1] = key_of(tree[oph])
    /\ res.calls[Len(res.calls)] \in keys_of(rchild(tree[oph]))
    /\ ~is_prefix(res.calls, l_rbtree_to__list(tree[oph]))

\* C16: min is None exactly on the empty tree and otherwise Some of the
\* first element of toList, a key no stored key is less than; max is None
\* exactly on the empty tree and otherwise Some of the last element of
\* toList, a key less than no stored key.
C16_MinMax ==
    opname \in {"min", "max"} =>
        LET l == l_rbtree_to__list(tree[oph])
        IN /\ res = none <=> tree[oph] = leaf
           /\ (opname = "min" /\ tree[oph] # leaf) =>
                 /\ res = some(l[1])
                 /\ \A k \in keys_of(tree[oph]) : ~apply_2(lt, k, res[1])
           /\ (opname = "max" /\ tree[oph] # leaf) =>
                 /\ res = some(l[Len(l)])
                 /\ \A k \in keys_of(tree[oph]) : ~apply_2(lt, res[1], k)

\* a min found two levels below the root
C16_Witness ==
    /\ opname = "min"
    /\ res # none
    /\ lchild(tree[oph]) # leaf
    /\ lchild(lchild(tree[oph])) # leaf
    /\ res = some(key_of(lchild(lchild(tree[oph]))))

\* what C17 says of both mfold and mfor, for the dictionaries in Which: on
\* the empty tree the result is pure(init); under the identity monad mfold
\* is fold; under the failing monad the actions that took effect are those
\* of the keys in in-order up to and including the first that fails, the
\* computation succeeds when none fails and mfold then returns the
\* accumulated value.
MSequenced(Which) ==
    (opname \in {"mfold", "mfor"} /\ res.m \in Which) =>
        LET t == tree[oph]
            seq == inorder(t)
        IN /\ t = leaf => res.out = monad_pure(res.m, res.init)
           /\ (opname = "mfold" /\ res.m.kind = "id") =>
                 res.out = l_rbtree_fold(res.f, t, res.init)
           /\ res.m.kind = "exc" =>
                 /\ res.out.log = first_cut(seq, res.f)
                 /\ res.out.ok = (keys_of(t) \cap res.f = {})
                 /\ (opname = "mfold" /\ res.out.ok) =>
                       res.out.val = res.init + sum_of(seq)

\* C17 as stated: mfold and mfor sequence the action over the keys in
\* in-order using only the dictionary's bind and pure, whatever its other
\* operations are.
C17_OnlyBindPure == MSequenced(Monads)

\* C17 amended: mfold sequences the action in in-order using only the
\* dictionary's bind and pure; mfor does so through bind, pure and the
\* dictionary's *>, with which it joins every action to pure(unit), so its
\* actions take effect as far as *> lets them: with an instance of *> that
\* returns its second argument alone the result is pure(unit).
C17_MSequence ==
    /\ MSequenced({m \in Monads : m.seq = "derived"})
    /\ opname = "mfold" => MSequenced(Monads)
    /\ (opname = "mfor" /\ res.m.seq = "second") =>
          res.out = monad_pure(res.m, unit)

\* an mfor that stopped at a failing key after the action of an earlier key
\* and before a later key
C17_Witness ==
    /\ opname = "mfor"
    /\ res.m = [kind |-> "exc", seq |-> "derived"]
    /\ res.out.ok = FALSE
    /\ Len(res.out.log) >= 2
    /\ Len(res.out.log) < size_of(tree[oph])

\* The lemmas the index holds under head h, by the record of its entries.
lemmas_under(h) == {added[i][2] : i \in {j \in DOMAIN added : added[j][1] = h}}

\* The priority of a lemma: the priority of its [intro] attribute if the lemma
\* is a declaration that carries one, the default priority otherwise.
priority_of(r) ==
    IF r[1] = "name" /\ env[r[2]].prio # none
    THEN env[r[2]].prio[1]
    ELSE LEAN_DEFAULT_PRIORITY

\* x was put into the log before y
before(log, x, y) ==
    \E i, j \in DOMAIN log : i < j /\ log[i] = x /\ log[j] = y

\* C18: in every state of the index reached by build and then inserts and
\* erases, find(h) returns the empty list for a head h no lemma is indexed
\* under.
C18_FindEmpty ==
    (opname = "index_find" /\ lemmas_under(opkey) = {}) => res = <<>>

\* find on a head without lemmas in an index that holds lemmas under another
\* head and has had a local hypothesis inserted
C18_Witness ==
    /\ opname = "index_find"
    /\ lemmas_under(opkey) = {}
    /\ res = <<>>
    /\ \E i \in DOMAIN added : added[i][2][1] = "name"
    /\ \E i \in DOMAIN added : added[i][2][1] = "local"

\* C19: in every state of the index reached by build and then inserts and
\* erases, the list find(h) returns is in non-increasing order of priority,
\* the priority of a lemma being that of its attribute if it carries one and
\* the default priority otherwise.
C19_PriorityOrder ==
    opname = "index_find" =>
        \A i, j \in DOMAIN res :
            i < j => priority_of(res[i]) >= priority_of(res[j])

\* find returned a local hypothesis, then a lemma of priority 10, then a
\* lemma of priority 5
C19_Witness ==
    /\ opname = "index_find"
    /\ Len(res) = 3
    /\ res[1][1] = "local"
    /\ priority_of(res[2]) = 10
    /\ priority_of(res[3]) = 5

AllHeads == {fn \in Fns : get_backward_target(fn) # none}

\* The elements of a list.
elements(l) == {l[i] : i \in DOMAIN l}

\* C21: build goes through every [intro] declaration: one whose conclusion
\* head is not a constant is traced and is in no find result, and every
\* other one is found under its head (and under no other head, and is not
\* traced), whatever is discarded beside it.
C21_BuildSkipsUnindexable ==
    index_state = "Ready" =>
        /\ \A c \in Decls :
              IF env[c].fn.kind = "Constant"
              THEN /\ c \notin traced
                   /\ \A h \in AllHeads :
                         backward_lemma(c) \in elements(index_find(m_index, h))
                             <=> h = env[c].fn
              ELSE /\ c \in traced
                   /\ \A h \in AllHeads :
                         backward_lemma(c) \notin
                             elements(index_find(m_index, h))
        /\ opname = "index_find" =>
              \A c \in traced : backward_lemma(c) \notin elements(res)

\* find returned the one declaration with a constant head, the declaration
\* listed after it having been discarded with a trace
C21_Witness ==
    /\ opname = "index_find"
    /\ traced = {MaxDecls}
    /\ backward_lemma(1) \in elements(res)

\* C22: putting [intro] on a declaration whose conclusion head is not a
\* constant raises an exception and the declaration is not registered; with
\* a constant head the validation succeeds, returns the environment it was
\* given, and the declaration is registered.  So no registered declaration
\* has a head that is not a constant.
C22_AttributeValidation ==
    /\ opname = "set_attribute" =>
          IF res.decl.fn.kind = "Constant"
          THEN /\ ~res.raised
               /\ env = Append(res.before, res.decl)
               /\ intro_on_set(env, Len(env)) = [raised |-> FALSE, env |-> env]
          ELSE /\ res.raised
               /\ env = res.before
    /\ \A c \in DOMAIN env : env[c].fn.kind = "Constant"

\* [intro] on a declaration with a local head raised, after another
\* declaration had been registered
C22_Witness ==
    /\ opname = "set_attribute"
    /\ res.decl.fn = mk_local("x")
    /\ res.raised
    /\ Len(env) = 1

\* C23: tactic_backward_lemmas_insert yields a new object and leaves every
\* object that existed before the call as it was: find on the object the
\* hypothesis was added to returns, for every head, the list it returned
\* before, while find on the new object returns what insert makes of it.
C23_InsertLeavesOriginal ==
    opname = "tactic_insert" =>
        /\ res.o \notin DOMAIN res.before
        /\ res.o \in DOMAIN vm_objs
        /\ \A o \in DOMAIN res.before : \A h \in AllHeads :
              tactic_backward_lemmas_find(vm_objs, o, h)
                  = tactic_backward_lemmas_find(res.before, o, h)
        /\ \A h \in AllHeads :
              tactic_backward_lemmas_find(vm_objs, res.o, h)
                  = index_find(index_insert(
                                   get_attribute_instances_by_prio(env),
                                   res.before[res.lemmas], res.lemma).map, h)

\* a hypothesis was added to an object that holds a declaration, and the
\* new object's list for the hypothesis' head differs from the original's
C23_Witness ==
    /\ opname = "tactic_insert"
    /\ \E h \in AllHeads :
          /\ tactic_backward_lemmas_find(vm_objs, res.lemmas, h) # <<>>
          /\ tactic_backward_lemmas_find(vm_objs, res.o, h)
                 # tactic_backward_lemmas_find(vm_objs, res.lemmas, h)

\* The list l without the lemma r, the others in their order.
list_without(l, r) == SelectSeq(l, LAMBDA x : x # r)

\* The lemmas a map holds.
lemmas_in(m) == UNION {elements(index_find(m, h)) : h \in AllHeads}

\* C24: erase(ctx, href) takes the entry of href out of the list of the head
\* of href's type and changes nothing else: the lists of the other heads and
\* the other lemmas of that list, in their order, are as before.  When the
\* erase follows insert(ctx, href) on an index that did not hold href, every
\* find result is what it was before the insert.
C24_EraseExact ==
    opname = "index_erase" =>
        /\ \A h \in AllHeads :
              index_find(m_index, h) =
                  IF get_backward_target(ctx_infer(res.href)) = some(h)
                  THEN list_without(index_find(res.before, h),
                                    backward_lemma_gexpr(res.href))
                  ELSE index_find(res.before, h)
        /\ (/\ res.inserted_into # none
            /\ backward_lemma_gexpr(res.href)
                   \notin lemmas_in(res.inserted_into[1])) =>
              \A h \in AllHeads :
                  index_find(m_index, h)
                      = index_find(res.inserted_into[1], h)

\* erase took out the hypothesis the preceding insert had added under a head
\* that keeps another lemma, in an index with lemmas under a second head
C24_Witness ==
    /\ opname = "index_erase"
    /\ res.inserted_into # none
    /\ backward_lemma_gexpr(res.href) \notin lemmas_in(res.inserted_into[1])
    /\ backward_lemma_gexpr(res.href) \in lemmas_in(res.before)
    /\ \E h \in AllHeads :
          /\ get_backward_target(ctx_infer(res.href)) = some(h)
          /\ index_find(m_index, h) # <<>>
    /\ Cardinality({h \in AllHeads : index_find(m_index, h) # <<>>}) >= 2

\* C25: the priority function gives the default priority to every lemma of
\* the index that is a local hypothesis, and to every declaration without a
\* recorded priority, whatever priorities the declarations carry; so in a
\* find result a local hypothesis stands behind every lemma of a priority
\* above the default and before every lemma of a priority below it.
C25_LocalsDefaultPriority ==
    index_state = "Ready" =>
        /\ \A r \in lemmas_in(m_index) :
              (r[1] = "local" \/ env[r[2]].prio = none) =>
                  backward_lemma_prio_fn(get_attribute_instances_by_prio(env),
                                         r) = LEAN_DEFAULT_PRIORITY
        /\ \A href \in Hyps :
              backward_lemma_prio_fn(get_attribute_instances_by_prio(env),
                                     backward_lemma_gexpr(href))
                  = LEAN_DEFAULT_PRIORITY
        /\ opname = "index_find" =>
              \A i, j \in DOMAIN res :
                  (res[i][1] = "local" /\ res[j][1] = "name"
                   /\ env[res[j][2]].prio # none) =>
                      IF env[res[j][2]].prio[1] > LEAN_DEFAULT_PRIORITY
                      THEN j < i
                      ELSE i < j

\* find returned a declaration of priority 2000, then a local hypothesis,
\* then a declaration of a priority below the default
C25_Witness ==
    /\ opname = "index_find"
    /\ Len(res) = 3
    /\ res[1][1] = "name" /\ env[res[1][2]].prio = some(2000)
    /\ res[2][1] = "local"
    /\ res[3][1] = "name" /\ env[res[3][2]].prio # none

\* C30: insert and erase of a hypothesis whose conclusion head is neither a
\* constant nor a local leave every find result as it was; with a constant
\* or a local head the hypothesis is in the list of exactly that head after
\* insert and in no list after erase, and the lists of the other heads are as
\* before; declarations are only ever under constant heads.
C30_InsertEraseByHead ==
    /\ opname \in {"index_insert", "index_erase"} =>
          LET fn == ctx_infer(res.href)
              r == backward_lemma_gexpr(res.href)
          IN IF fn.kind \notin {"Constant", "Local"}
             THEN \A h \in AllHeads :
                      index_find(m_index, h) = index_find(res.before, h)
             ELSE /\ \A h \in AllHeads \ {fn} :
                        /\ index_find(m_index, h) = index_find(res.before, h)
                        /\ r \notin elements(index_find(m_index, h))
                  /\ r \in elements(index_find(m_index, fn))
                        <=> opname = "index_insert"
                  /\ elements(index_find(m_index, fn)) \ {r}
                        = elements(index_find(res.before, fn)) \ {r}
    /\ \A h \in AllHeads : \A r \in elements(index_find(m_index, h)) :
          r[1] = "name" => h.kind = "Constant"

\* an erase of a hypothesis without a target head, on an index that holds a
\* hypothesis under a local head and a lemma under a constant head
C30_Witness ==
    /\ opname = "index_erase"
    /\ get_backward_target(ctx_infer(res.href)) = none
    /\ \E h \in AllHeads : h.kind = "Local" /\ index_find(m_index, h) # <<>>
    /\ \E h \in AllHeads : h.kind = "Constant" /\ index_find(m_index, h) # <<>>

\* C26: two threads that hold a reference each to the tree t insert their
\* keys; however their steps interleave, the tree a thread ends with is
\* insert(t, k) of its own key, so it holds the keys of t and that key and
\* not the other thread's key, and t is what a reader and a thread that has
\* not started yet see.
C26_IndependentWriters ==
    procs.phase = "race" =>
        /\ \A w \in Handles :
              /\ procs.w[w].pc = "idle" => tree_at(heap, roots[w]) = procs.t
              /\ procs.w[w].pc = "done" =>
                    /\ tree_at(heap, roots[w])
                          = l_rbtree_insert(lt, procs.t, procs.w[w].k).n
                    /\ keys_of(tree_at(heap, roots[w]))
                          = keys_of(procs.t) \cup {procs.w[w].k}
        /\ ~is_scalar(procs.reader) => tree_at(heap, procs.reader) = procs.t

\* both threads are done, with different keys that t did not hold, and one
\* of them has overwritten a cell of t in place
C26_Witness ==
    /\ procs.phase = "race"
    /\ \A w \in Handles : procs.w[w].pc = "done"
    /\ procs.w["a"].k # procs.w["b"].k
    /\ {procs.w["a"].k, procs.w["b"].k} \cap keys_of(procs.t) = {}
    /\ size_of(procs.t) >= 2
    /\ \E w \in Handles : procs.w[w].inplace

\* x is a tree object: box(0), or a red or black node of two tree objects
RECURSIVE is_rbnode(_)
is_rbnode(x) ==
    \/ x = leaf
    \/ /\ Len(x) = 5
       /\ obj_tag(x) \in {red_tag, black_tag}
       /\ key_of(x) \in Keys
       /\ is_rbnode(lchild(x))
       /\ is_rbnode(rchild(x))

RECURSIVE height(_)
height(x) ==
    IF x = leaf THEN 0
    ELSE 1 + (IF height(lchild(x)) >= height(rchild(x))
              THEN height(lchild(x)) ELSE height(rchild(x)))

\* s starts at the root x and goes from each node to a child of it, so it
\* has one node of each level it reaches
descends(s, x) ==
    /\ s[1] = x
    /\ \A i \in 1..(Len(s) - 1) :
          /\ s[i] # leaf
          /\ s[i + 1] = lchild(s[i]) \/ s[i + 1] = rchild(s[i])
    /\ Len(s) <= height(x) + 1

\* C27: with any relation as the comparator, insert returns a tree that has
\* the nodes of its argument or one more, find returns none or one key, and
\* both make their calls along one path from the root, one node a level.
C27_TotalForAnyComparator ==
    /\ opname = "insert" =>
          /\ is_rbnode(tree[insh]) /\ tree[insh] # leaf
          /\ size_of(tree[insh]) \in {size_of(pre), size_of(pre) + 1}
          /\ descends(ins_calls(lt, pre, inskey), pre)
    /\ opname = "find" =>
          /\ res = none \/ \E k \in Keys : res = some(k)
          /\ descends(find__core_calls(lt, tree[oph], opkey), tree[oph])

\* an insert with a comparator that is neither irreflexive nor asymmetric
\* stored a key the tree held already in a node of its own, three levels
\* down
C27_Witness ==
    /\ opname = "insert"
    /\ <<inskey, inskey>> \in lt
    /\ \E j \in CmpKeys : j # inskey /\ <<j, inskey>> \in lt
                                      /\ <<inskey, j>> \in lt
    /\ inskey \in keys_of(pre)
    /\ size_of(tree[insh]) = size_of(pre) + 1
    /\ Len(ins_calls(lt, pre, inskey)) >= 3

bfix_frames == {i \in 1..Len(fx.stack) : fx.stack[i].fn = "bfix"}

step_frames == {i \in 1..Len(fx.stack) : fx.stack[i].fn = "step"}

C28_Fuel ==
    /\ fx.phase = "done" /\ fx.x_2 = 0 =>
          fx.ret = some(fx.x_0[fx.x_3]) /\ fx.steps = 0 /\ fx.bases = 1
    /\ fx.phase = "done" /\ fx.x_2 > 0 => fx.steps >= 1
    /\ \A i \in step_frames :
          /\ i - 1 \in bfix_frames
          /\ fx.stack[i - 1].x_2 > 0
          /\ fx.stack[i].x_9 = alloc_closure(fx.x_0, fx.x_1,
                                             fx.stack[i - 1].x_2 - 1)
          /\ fx.stack[i].a = fx.stack[i - 1].x_3
    /\ \A i \in bfix_frames :
          /\ fx.stack[i].x_0 = fx.x_0 /\ fx.stack[i].x_1 = fx.x_1
          /\ i = 1 => fx.stack[i].x_2 = fx.x_2
          /\ i > 1 => /\ i - 1 \in step_frames
                      /\ fx.stack[i].x_2 = fx.stack[i - 1].x_9.x_2
          /\ \A j \in bfix_frames : i < j => fx.stack[j].x_2 < fx.stack[i].x_2
    /\ Cardinality(step_frames) <= fx.x_2
    /\ fx.phase = "run" /\ top.fn = "bfix" /\ top.x_2 = 0 =>
          Cardinality(step_frames) <= fx.x_2

\* C28: bfix with fuel 0 returns base(a) and never enters step; with fuel
\* n > 0 it enters step with the closure of bfix over base, step and n - 1;
\* the fuel falls along every chain of activations, at most n activations of
\* step are open when base is called, and every call of bfix returns.
C28_BoundedFixpoint == []C28_Fuel /\ (fx.phase = "run" ~> fx.phase = "done")

\* a call with fuel 2 or more whose chain of continuation calls has used the
\* fuel up and is about to call base
C28_Witness ==
    /\ fx.phase = "run"
    /\ fx.x_2 >= 2
    /\ top.fn = "bfix" /\ top.pc = "start" /\ top.x_2 = 0
    /\ Cardinality(step_frames) = fx.x_2
    /\ fx.steps > fx.x_2

\* the cells a walk from p meets
RECURSIVE cells_from(_, _)
cells_from(H, p) ==
    IF is_scalar(p) THEN {}
    ELSE {p} \cup cells_from(H, H[p].l) \cup cells_from(H, H[p].r)

live_cells == UNION {cells_from(heap, roots[h]) : h \in Handles}

\* the handles and the fields of allocated cells that refer to cell a
references(a) ==
    Cardinality({h \in Handles : roots[h] = a})
    + Cardinality({b \in Addr : heap[b].rc > 0 /\ heap[b].l = a})
    + Cardinality({b \in Addr : heap[b].rc > 0 /\ heap[b].r = a})

\* C29: after every insert (and copy and drop of a handle) each cell a handle
\* reaches is allocated and its count is the number of handles and fields
\* that refer to it, and each cell no handle reaches has count 0.
C29_CountsConsistent ==
    \A a \in Addr :
       IF a \in live_cells
       THEN heap[a].rc > 0 /\ heap[a].rc = references(a)
       ELSE heap[a].rc = 0

\* an insert that reused an exclusive cell, opened a shared one, and left
\* the other handle's tree in place
C29_Witness ==
    /\ opname = "insert"
    /\ reused >= 1
    /\ copied >= 1
    /\ \E a \in Addr : heap[a].rc >= 2
    /\ roots[Other(oph)] # 0 /\ roots[Other(oph)] # roots[oph]

=============================================================================
